---- MODULE Spec2Model ----
(***************************************************************************)
(* AutoFiler: the two-phase review workflow (src/gui/review_tab.py), the   *)
(* review queue (src/review_queue.py), the terminal review session         *)
(* (src/review_session.py), the intake pipeline (src/pipeline.py with      *)
(* guards, router, vault, sidecar and review_engine.stage_file), the       *)
(* watcher's event deduplication (autofiler.py) and the updates of the     *)
(* configuration store (config_loader, config_learner, field_resolver,     *)
(* type_creator_core), the learning operations and the entity reference    *)
(* (config_learner, field_resolver, cross_referencer), and the scoring,    *)
(* matching and extraction functions (scorer, fuzzy_matcher,               *)
(* content_matcher).                                                       *)
(*                                                                         *)
(* File paths inside the review directory are identified with their file   *)
(* names (ReviewQueue keys every entry by pathlib.Path(p).name).  Python   *)
(* None is the string "None".  Timestamps (added, resolved_at) are left    *)
(* out of queue entries.  Each specification moves its own part of the     *)
(* state and leaves the other parts as they are initially.                 *)
(***************************************************************************)
EXTENDS Naturals, Integers, Sequences, FiniteSets, Bags, TLC

VARIABLES
    state,              \* ReviewTab._state
    current_file,       \* ReviewTab._current_file
    classification,     \* ReviewTab._classification (with _scored_candidates, _extracted_text)
    assigned_type,      \* ReviewTab._assigned_type
    extraction_result,  \* ReviewTab._extraction_result
    gap_analysis,       \* ReviewTab._gap_analysis
    panel,              \* the widgets of ReviewTab._content_frame (which buttons exist)
    tree,               \* the items of ReviewTab._tree
    on_define_new,      \* ReviewTab.on_define_new is set (the Define tab is wired)
    return_file_path,   \* DefineTab._return_file_path
    workers,            \* bag of running background threads
    queue_state,        \* ReviewQueue._state["files"]
    state_file,         \* content of review_state.json
    review_dir,         \* names present in the review directory
    staging_dir,        \* staged copies, by the name of the original
    sidecar_dir,        \* sidecars, by the name of the original
    vault_dir,          \* vault copies, by the name of the original
    selections,         \* history: selections accepted by _on_file_select
    defines,            \* history: hand-offs to the Define tab
    attempts,           \* history: extraction threads started since _reset_review_state
    session_pc,         \* run_review_session: position
    session_pending,    \* run_review_session: pending (the list scan() returned)
    session_idx,        \* run_review_session: loop index i
    sidecar_path_set,   \* settings.get("sidecar_path") is truthy
    destination_dir,    \* files moved by file_to_destination, by original name
    skipped,            \* history: files skipped since the session's scan
    intake_dir,         \* the intake area: name -> file
    review_files,       \* the review area as the pipeline sees it: name -> content
    staging_files,      \* the staging directory: path -> staged document or sidecar
    vault_files,        \* the vault directory: vault name -> content
    ref_store,          \* fieldname_ref.json as the pipeline leaves it (entity keys)
    clock,              \* datetime.now(), in seconds
    arrivals,           \* history: files that have arrived in the intake area
    last_call,          \* history: the last process_file / stage_file call and its outcome
    ledger,             \* history: one record per staging that returned
    monotonic,          \* time.monotonic(), in seconds
    recently_processed, \* IntakeHandler._recently_processed
    handlers,           \* the threads inside IntakeHandler.on_created
    present,            \* the paths for which os.path.isfile is true
    events,             \* history: creation events delivered to on_created
    last_event,         \* history: the last event and whether it was ignored
    accepted_log,       \* history: the events that passed the deduplication
    invoked,            \* history: the events process_file was invoked for
    config_lock,        \* config_learner._config_lock: the thread that holds it
    pcs,                \* the position of each read-modify-write
    reference_entries,  \* the dict object each reference update works on
    td,                 \* the parsed type definitions each update works on
    ref_disk,           \* fieldname_ref.json on disk
    cache,              \* ConfigLoader._cache[REF_PATH]: a dict object, 0 if absent
    heap,               \* the dict objects json.loads has built
    td_disk,            \* type_definitions.json on disk
    added,              \* history: the keys whose read-modify-write has finished
    td_cache,           \* ConfigLoader._cache["type_definitions.json"]: <<>> if absent
    readers,            \* the threads inside ConfigLoader._load("type_definitions.json")
    last_read,          \* history: what the last finished read returned, and what it had to contain
    types,              \* type_definitions.json: td["types"], type name -> definition
    fieldname_ref,      \* References/fieldname_ref.json: entity key -> entity
    learn_call,         \* history: the last learning operation and the count it returned
    taught,             \* history: the (type, lowered keyword) pairs add_keywords_to_type was given
    ref_data,           \* a cross-reference file: ref_data[ref_key], key -> entry
    resolve_call,       \* history: the last lookup of a name and the entity it gave
    scorer_call,        \* history: the last scoring, its arguments and results
    fuzzy_call,         \* history: the last call of a matching function and its result
    extract_call,       \* history: the last extract_fields call and its result
    namer_call,         \* history: the last generate_staging_name call and its result
    type_definitions,   \* type_definitions.json on disk: td["types"], type name -> definition
    folder_mappings,    \* References/folder_mappings.json on disk
    naming_patterns,    \* References/naming_conventions.json on disk: nc["patterns"]
    loader_cache,       \* each process: ConfigLoader._cache["type_definitions.json"]["types"], or absent
    loading,            \* a worker thread of the GUI inside ConfigLoader._load: the text it has read
    create_call,        \* history: the last type creation and whether it saved
    manual_call,        \* history: the last stage_file call with a manual field, and whether it returned
    loop,               \* the learning step of a review: its state and what the extraction worker read
    learning_record,    \* ReviewTab._learning_record, as the sidecar gets it
    appended            \* history: what _apply_learning_a appended to the type definition

reviewVars == <<state, current_file, classification, assigned_type, extraction_result,
                gap_analysis, panel, tree, on_define_new, return_file_path,
                workers, selections, defines, attempts>>
queueVars == <<queue_state, state_file>>
fsVars == <<review_dir, staging_dir, sidecar_dir, vault_dir>>
sessionVars == <<session_pc, session_pending, session_idx, sidecar_path_set,
                 destination_dir, skipped>>
intakeVars == <<intake_dir, review_files, staging_files, vault_files, ref_store, clock,
                arrivals, last_call, ledger>>
dedupVars == <<monotonic, recently_processed, handlers, present, events, last_event,
               accepted_log, invoked>>
configVars == <<config_lock, pcs, reference_entries, td, ref_disk, cache, heap, td_disk, added,
                td_cache>>
cacheVars == <<readers, last_read>>
learnVars == <<types, fieldname_ref, learn_call, taught>>
resolveVars == <<ref_data, resolve_call>>
fnVars == <<scorer_call, fuzzy_call, extract_call>>
namerVars == <<namer_call>>
creatorVars == <<type_definitions, folder_mappings, naming_patterns, loader_cache, loading, create_call>>
manualVars == <<manual_call>>
loopVars == <<loop>>
recordVars == <<learning_record, appended>>
otherVars == <<intakeVars, dedupVars, configVars, cacheVars, learnVars, resolveVars, fnVars, namerVars, creatorVars, manualVars, loopVars, recordVars>>
guiVars == <<reviewVars, queueVars, fsVars, sessionVars>>
exceptIntake == <<guiVars, dedupVars, configVars, cacheVars, learnVars, resolveVars, fnVars, namerVars, creatorVars, manualVars, loopVars, recordVars>>
exceptDedup == <<guiVars, intakeVars, configVars, cacheVars, learnVars, resolveVars, fnVars, namerVars, creatorVars, manualVars, loopVars, recordVars>>
exceptConfig == <<guiVars, intakeVars, dedupVars, cacheVars, learnVars, resolveVars, fnVars, namerVars, creatorVars, manualVars, loopVars, recordVars>>
exceptCache == <<guiVars, intakeVars, dedupVars, learnVars, resolveVars, fnVars, namerVars, creatorVars, manualVars, loopVars, recordVars>>
exceptLearn == <<guiVars, intakeVars, dedupVars, configVars, cacheVars, resolveVars, fnVars, namerVars, creatorVars, manualVars, loopVars, recordVars>>
exceptResolve == <<guiVars, intakeVars, dedupVars, configVars, cacheVars, fnVars, namerVars, creatorVars, manualVars, loopVars, recordVars>>
exceptScorer == <<guiVars, intakeVars, dedupVars, configVars, cacheVars, learnVars, resolveVars,
                  fuzzy_call, extract_call, namerVars, creatorVars, manualVars, loopVars, recordVars>>
exceptFuzzy == <<guiVars, intakeVars, dedupVars, configVars, cacheVars, learnVars, resolveVars,
                 scorer_call, extract_call, namerVars, creatorVars, manualVars, loopVars, recordVars>>
exceptExtract == <<guiVars, intakeVars, dedupVars, configVars, cacheVars, learnVars, resolveVars,
                   scorer_call, fuzzy_call, namerVars, creatorVars, manualVars, loopVars, recordVars>>
exceptNamer == <<guiVars, intakeVars, dedupVars, configVars, cacheVars, learnVars, resolveVars, fnVars, creatorVars, manualVars, loopVars, recordVars>>
exceptCreator == <<guiVars, intakeVars, dedupVars, configVars, cacheVars, learnVars, resolveVars, fnVars, namerVars, manualVars, loopVars, recordVars>>
exceptManual == <<guiVars, intakeVars, dedupVars, configVars, cacheVars, fnVars, namerVars, creatorVars, loopVars, recordVars>>
exceptLoop == <<guiVars, intakeVars, dedupVars, learnVars, resolveVars, fnVars, namerVars, creatorVars, manualVars, recordVars>>
exceptRecord == <<guiVars, intakeVars, dedupVars, configVars, cacheVars, resolveVars, fnVars, namerVars, creatorVars, manualVars, loopVars>>
vars == <<reviewVars, queueVars, fsVars, sessionVars, otherVars>>

----------------------------------------------------------------------------
(* Bounds and input domains *)

MaxWorkers == 2
MaxSelections == 2
MaxDefines == 1
AttemptsCap == 3

None == "None"
Files == {"a.pdf", "b.pdf"}
DirNames == {"sub"}
Names == Files \cup DirNames
Types == {"invoice"}
RequiredFields == <<"vendor", "date">>
EntryValues == {<<>>, <<" ">>, <<"x">>, <<" ", "x">>}

IDLE == "IDLE"
CLASSIFYING == "CLASSIFYING"
PHASE_A == "PHASE_A"
DIAGNOSING_A == "DIAGNOSING_A"
LEARNING_A == "LEARNING_A"
EXTRACTING == "EXTRACTING"
PHASE_B == "PHASE_B"
DIAGNOSING_B == "DIAGNOSING_B"
LEARNING_B == "LEARNING_B"
RE_EXTRACTING == "RE_EXTRACTING"
MANUAL_ENTRY == "MANUAL_ENTRY"
STAGING == "STAGING"
DONE == "DONE"

----------------------------------------------------------------------------
(* Strings as sequences of tokens *)

RECURSIVE lstrip(_)
lstrip(s) == IF s # <<>> /\ Head(s) = " " THEN lstrip(Tail(s)) ELSE s

RECURSIVE rstrip(_)
rstrip(s) == IF s # <<>> /\ s[Len(s)] = " " THEN rstrip(SubSeq(s, 1, Len(s) - 1)) ELSE s

strip(s) == rstrip(lstrip(s))

RECURSIVE join(_, _)
join(sep, items) ==
    IF items = <<>> THEN <<>>
    ELSE IF Len(items) = 1 THEN <<items[1]>>
    ELSE <<items[1], sep>> \o join(sep, Tail(items))

Range(s) == {s[i] : i \in DOMAIN s}

\* the subsequences of RequiredFields, in declaration order
RECURSIVE SubSeqs(_)
SubSeqs(s) ==
    IF s = <<>> THEN {<<>>}
    ELSE LET rest == SubSeqs(Tail(s))
         IN rest \cup {<<Head(s)>> \o r : r \in rest}

----------------------------------------------------------------------------
(* ReviewQueue *)

is_file(n) == n \in Files

NewEntry == [status |-> "pending", phase |-> None, review_reason |-> None,
             phase_b_reason |-> <<>>, resolved_as |-> None]

_load_state(f) == f

_save_state(q) == q

\* scan that forgets to reset an interrupted review
scan_resets_resolved_only(q, dir) ==
    [k \in DOMAIN q \cup {n \in dir : is_file(n)} |->
        IF k \in dir /\ is_file(k)
        THEN IF k \notin DOMAIN q THEN NewEntry
             ELSE IF q[k].status = "resolved"
                  THEN [q[k] EXCEPT !.status = "pending", !.resolved_as = None]
                  ELSE q[k]
        ELSE q[k]]

scan(q, dir) ==
    [k \in DOMAIN q \cup {n \in dir : is_file(n)} |->
        IF k \in dir /\ is_file(k)
        THEN IF k \notin DOMAIN q THEN NewEntry
             ELSE IF q[k].status \in {"resolved", "in_review"}
                  THEN [q[k] EXCEPT !.status = "pending", !.resolved_as = None]
                  ELSE q[k]
        ELSE q[k]]

pending(q) == {n \in DOMAIN q : q[n].status = "pending"}

\* mark_in_review that does what the comment at the skip branch hopes for
mark_in_review_as_pending(q, name) ==
    IF name \in DOMAIN q THEN [q EXCEPT ![name].status = "pending"] ELSE q

mark_in_review(q, name) ==
    IF name \in DOMAIN q THEN [q EXCEPT ![name].status = "in_review"] ELSE q

mark_resolved(q, name, resolved_as) ==
    IF name \in DOMAIN q
    THEN [q EXCEPT ![name].status = "resolved", ![name].resolved_as = resolved_as]
    ELSE q

set_review_reason(q, name, reason, phase) ==
    IF name \in DOMAIN q
    THEN [q EXCEPT ![name].review_reason = reason, ![name].phase = phase]
    ELSE q

\* mark_phase_b that drops the reason
mark_phase_b_without_reason(q, name, reason) ==
    IF name \in DOMAIN q THEN [q EXCEPT ![name].phase = "B"] ELSE q

mark_phase_b(q, name, reason) ==
    IF name \in DOMAIN q
    THEN [q EXCEPT ![name].phase = "B", ![name].phase_b_reason = reason]
    ELSE q

\* every mutator writes the state file exactly when the name is tracked
QueueUpdate(newq, name) ==
    /\ queue_state' = newq
    /\ state_file' = IF name \in DOMAIN queue_state THEN _save_state(newq) ELSE state_file

----------------------------------------------------------------------------
(* ReviewTab: data *)

NoResult == [present |-> FALSE, success |-> FALSE, missing_fields |-> <<>>,
             extracted_fields |-> {}]

\* attempt_extraction's result: the required fields it could not fill, in
\* declaration order; the others are extracted
attempt_extraction(missing) ==
    [present |-> TRUE, success |-> Len(missing) = 0, missing_fields |-> missing,
     extracted_fields |-> Range(RequiredFields) \ Range(missing)]

\* a background thread: what it runs and the arguments it was given
Thread(kind, file, extracted, manual) ==
    [kind |-> kind, file |-> file, extracted_fields |-> extracted, manual_fields |-> manual]

Running(w) == BagIn(w, workers)
FreeThread == BagCardinality(workers) < MaxWorkers
Start(bag, w) == bag (+) SetToBag({w})
Finish(bag, w) == bag (-) SetToBag({w})

phase_b_reason(missing) == <<"missing:">> \o join(",", missing)

BumpAttempts == IF attempts < AttemptsCap THEN attempts + 1 ELSE attempts

----------------------------------------------------------------------------
(* ReviewTab: handlers.  A handler that starts a thread is enabled only    *)
(* while fewer than MaxWorkers threads run.  A thread reads                *)
(* self._current_file when it starts; its completion and the callback it   *)
(* schedules with root.after(0, ...) are one step.  _on_file_select starts *)
(* at most MaxSelections reviews and _define_new_type hands over to the    *)
(* Define tab at most MaxDefines times.                                    *)

\* move_to_review puts a file under a free name into the review directory
FileArrives(n) ==
    /\ n \in Files \ review_dir
    /\ review_dir' = review_dir \cup {n}
    /\ UNCHANGED <<reviewVars, queueVars, staging_dir, sidecar_dir, vault_dir, sessionVars, otherVars>>

_refresh_tree(q) == pending(q)

_scan_queue ==
    /\ queue_state' = scan(queue_state, review_dir)
    /\ state_file' = _save_state(queue_state')
    /\ tree' = _refresh_tree(queue_state')
    /\ UNCHANGED <<state, current_file, classification, assigned_type, extraction_result,
                   gap_analysis, panel, return_file_path, workers,
                   selections, attempts, fsVars, defines, on_define_new, sessionVars, otherVars>>

\* _on_file_select without its "Don't switch mid-review" return
_on_file_select_always_switches(file_path) ==
    /\ file_path \in tree
    /\ FreeThread
    /\ selections < MaxSelections
    /\ selections' = selections + 1
    /\ current_file' = file_path
    /\ classification' = None
    /\ assigned_type' = None
    /\ extraction_result' = NoResult
    /\ gap_analysis' = None
    /\ attempts' = 0
    /\ QueueUpdate(mark_in_review(queue_state, file_path), file_path)
    /\ state' = CLASSIFYING
    /\ panel' = "processing"
    /\ workers' = Start(workers, Thread("classify", file_path, {}, {}))
    /\ UNCHANGED <<tree, return_file_path, fsVars, defines, on_define_new, sessionVars, otherVars>>

\* <<TreeviewSelect>> for an item of the tree
_on_file_select(file_path) ==
    /\ file_path \in tree
    /\ IF state \notin {IDLE, DONE} /\ file_path # current_file
       THEN UNCHANGED <<state, current_file, classification, assigned_type,
                        extraction_result, gap_analysis, panel,
                        workers, attempts, selections, queueVars>>
       ELSE /\ FreeThread
            /\ selections < MaxSelections
            /\ selections' = selections + 1
            /\ current_file' = file_path
            /\ classification' = None
            /\ assigned_type' = None
            /\ extraction_result' = NoResult
            /\ gap_analysis' = None
            /\ attempts' = 0
            /\ QueueUpdate(mark_in_review(queue_state, file_path), file_path)
            /\ state' = CLASSIFYING
            /\ panel' = "processing"
            /\ workers' = Start(workers, Thread("classify", file_path, {}, {}))
    /\ UNCHANGED <<tree, return_file_path, fsVars, defines, on_define_new, sessionVars, otherVars>>

\* the thread of _run_classification returns; classify_file needs the file
_on_classification_done(w, best_type) ==
    /\ Running(w) /\ w.kind = "classify"
    /\ w.file \in review_dir
    /\ workers' = Finish(workers, w)
    /\ classification' = "result"
    /\ assigned_type' = IF best_type # None THEN best_type ELSE assigned_type
    /\ state' = PHASE_A
    /\ panel' = "phase_a"
    /\ UNCHANGED <<current_file, extraction_result, gap_analysis, tree,
                   return_file_path, selections, attempts, queueVars, fsVars, defines, on_define_new, sessionVars, otherVars>>

_run_diagnosis_a(file) == Start(workers, Thread("diagnose_a", file, {}, {}))

\* "Confirm Type": the combobox holds _assigned_type or "" until a type is chosen
_confirm_type(selected) ==
    /\ panel = "phase_a"
    /\ selected = "" => assigned_type = None
    /\ IF selected = ""
       THEN UNCHANGED <<assigned_type, queueVars, state, panel, workers>>
       ELSE /\ FreeThread
            /\ assigned_type' = selected
            /\ QueueUpdate(set_review_reason(queue_state, current_file, "user_assigned", "A"),
                           current_file)
            /\ state' = DIAGNOSING_A
            /\ panel' = "processing"
            /\ workers' = _run_diagnosis_a(current_file)
    /\ UNCHANGED <<current_file, classification, extraction_result, gap_analysis,
                   tree, return_file_path, selections, attempts, fsVars,
                   defines, on_define_new, sessionVars, otherVars>>

\* "Define New Type": on_define_new hands the file to DefineTab.set_return_context
_define_new_type ==
    /\ panel = "phase_a"
    /\ on_define_new
    /\ defines < MaxDefines
    /\ defines' = defines + 1
    /\ return_file_path' = current_file
    /\ UNCHANGED <<state, current_file, classification, assigned_type, extraction_result,
                   gap_analysis, panel, tree, workers, selections, attempts,
                   on_define_new, queueVars, fsVars, sessionVars, otherVars>>

\* DefineTab._save with a return context: on_type_created(type_name, return_path)
\* reaches ReviewTab.resume_with_type.  Its _select_file_in_tree raises a
\* <<TreeviewSelect>> of its own when the file is in the tree: a later
\* _on_file_select step for the current file.
resume_with_type(type_name) ==
    /\ return_file_path # None
    /\ FreeThread
    /\ return_file_path' = None
    /\ current_file' = return_file_path
    /\ assigned_type' = type_name
    /\ state' = DIAGNOSING_A
    /\ panel' = "processing"
    /\ workers' = _run_diagnosis_a(return_file_path)
    /\ UNCHANGED <<classification, extraction_result, gap_analysis, tree,
                   selections, attempts, queueVars, fsVars, defines, on_define_new, sessionVars, otherVars>>

\* DefineTab._cancel with a return context: resume_with_type(None, return_path)
resume_cancelled ==
    /\ return_file_path # None
    /\ return_file_path' = None
    /\ current_file' = return_file_path
    /\ state' = PHASE_A
    /\ panel' = "phase_a"
    /\ UNCHANGED <<classification, assigned_type, extraction_result, gap_analysis,
                   tree, workers, selections, attempts, queueVars, fsVars,
                   defines, on_define_new, sessionVars, otherVars>>

_on_diagnosis_a_done(w) ==
    /\ Running(w) /\ w.kind = "diagnose_a"
    /\ workers' = Finish(workers, w)
    /\ gap_analysis' = "A"
    /\ state' = LEARNING_A
    /\ panel' = "learning_a"
    /\ UNCHANGED <<current_file, classification, assigned_type, extraction_result,
                   tree, return_file_path, selections, attempts, queueVars,
                   fsVars, defines, on_define_new, sessionVars, otherVars>>

_advance_to_extraction ==
    /\ FreeThread
    /\ state' = EXTRACTING
    /\ panel' = "processing"
    /\ workers' = Start(workers, Thread("extract", current_file, {}, {}))
    /\ attempts' = BumpAttempts

\* "Apply Learning" (phase A): what it persists goes to the configuration
\* documents and to the learning record, which only the sidecar and the log read
_apply_learning_a ==
    /\ panel = "learning_a"
    /\ _advance_to_extraction
    /\ UNCHANGED <<current_file, classification, assigned_type, extraction_result,
                   gap_analysis, tree, return_file_path, selections, queueVars, fsVars,
                   defines, on_define_new, sessionVars, otherVars>>

_skip_learning_a ==
    /\ panel = "learning_a"
    /\ _advance_to_extraction
    /\ UNCHANGED <<current_file, classification, assigned_type, extraction_result,
                   gap_analysis, tree, return_file_path, selections,
                   queueVars, fsVars, defines, on_define_new, sessionVars, otherVars>>

\* _run_staging: the thread gets er["extracted_fields"] and manual_fields
_run_staging(bag, file, er, manual_fields) ==
    Start(bag, Thread("stage", file, er.extracted_fields, manual_fields))

_on_extraction_done(w, missing) ==
    /\ Running(w) /\ w.kind = "extract"
    /\ missing \in SubSeqs(RequiredFields)
    /\ extraction_result' = attempt_extraction(missing)
    /\ IF extraction_result'.success
       THEN /\ state' = STAGING
            /\ panel' = "processing"
            /\ workers' = _run_staging(Finish(workers, w), current_file,
                                       extraction_result', {})
            /\ UNCHANGED queueVars
       ELSE /\ QueueUpdate(mark_phase_b(queue_state, current_file,
                                        phase_b_reason(missing)), current_file)
            /\ state' = PHASE_B
            /\ panel' = "phase_b"
            /\ workers' = Finish(workers, w)
    /\ UNCHANGED <<current_file, classification, assigned_type, gap_analysis,
                   tree, return_file_path, selections, attempts, fsVars,
                   defines, on_define_new, sessionVars, otherVars>>

\* "Diagnose Extraction Gaps"
_run_diagnosis_b ==
    /\ panel = "phase_b"
    /\ FreeThread
    /\ state' = DIAGNOSING_B
    /\ panel' = "processing"
    /\ workers' = Start(workers, Thread("diagnose_b", current_file, {}, {}))
    /\ UNCHANGED <<current_file, classification, assigned_type, extraction_result,
                   gap_analysis, tree, return_file_path, selections,
                   attempts, queueVars, fsVars, defines, on_define_new, sessionVars, otherVars>>

_on_diagnosis_b_done(w) ==
    /\ Running(w) /\ w.kind = "diagnose_b"
    /\ workers' = Finish(workers, w)
    /\ gap_analysis' = "B"
    /\ state' = LEARNING_B
    /\ panel' = "learning_b"
    /\ UNCHANGED <<current_file, classification, assigned_type, extraction_result,
                   tree, return_file_path, selections, attempts, queueVars,
                   fsVars, defines, on_define_new, sessionVars, otherVars>>

_run_re_extraction ==
    /\ FreeThread
    /\ state' = RE_EXTRACTING
    /\ panel' = "processing"
    /\ workers' = Start(workers, Thread("re_extract", current_file, {}, {}))
    /\ attempts' = BumpAttempts

\* "Apply Learning" (phase B)
_apply_learning_b ==
    /\ panel = "learning_b"
    /\ _run_re_extraction
    /\ UNCHANGED <<current_file, classification, assigned_type, extraction_result,
                   gap_analysis, tree, return_file_path, selections, queueVars, fsVars,
                   defines, on_define_new, sessionVars, otherVars>>

_skip_learning_b ==
    /\ panel = "learning_b"
    /\ _run_re_extraction
    /\ UNCHANGED <<current_file, classification, assigned_type, extraction_result,
                   gap_analysis, tree, return_file_path, selections,
                   queueVars, fsVars, defines, on_define_new, sessionVars, otherVars>>

_on_re_extraction_done(w, missing) ==
    /\ Running(w) /\ w.kind = "re_extract"
    /\ missing \in SubSeqs(RequiredFields)
    /\ extraction_result' = attempt_extraction(missing)
    /\ IF extraction_result'.success
       THEN /\ state' = STAGING
            /\ panel' = "processing"
            /\ workers' = _run_staging(Finish(workers, w), current_file,
                                       extraction_result', {})
       ELSE /\ state' = MANUAL_ENTRY
            /\ panel' = "manual_entry"
            /\ workers' = Finish(workers, w)
    /\ UNCHANGED <<current_file, classification, assigned_type, gap_analysis,
                   tree, return_file_path, selections, attempts, queueVars,
                   fsVars, defines, on_define_new, sessionVars, otherVars>>

\* the form of _show_manual_entry has one entry per er["missing_fields"]
manual_fields_of(entries) == {f \in DOMAIN entries : strip(entries[f]) # <<>>}

\* "Stage File"
_stage_with_manual(entries) ==
    /\ panel = "manual_entry"
    /\ FreeThread
    /\ entries \in [Range(extraction_result.missing_fields) -> EntryValues]
    /\ state' = STAGING
    /\ panel' = "processing"
    /\ workers' = _run_staging(workers, current_file, extraction_result,
                               manual_fields_of(entries))
    /\ UNCHANGED <<current_file, classification, assigned_type, extraction_result,
                   gap_analysis, tree, return_file_path, selections,
                   attempts, queueVars, fsVars, defines, on_define_new, sessionVars, otherVars>>

\* stage_file: merge, hash, vault copy, move, sidecar
merged_fields(w) == w.extracted_fields \cup w.manual_fields

_on_staging_done(w) ==
    /\ Running(w) /\ w.kind = "stage"
    /\ w.file \in review_dir
    /\ workers' = Finish(workers, w)
    /\ vault_dir' = vault_dir \cup {w.file}
    /\ review_dir' = review_dir \ {w.file}
    /\ staging_dir' = staging_dir \cup {w.file}
    /\ sidecar_dir' = sidecar_dir \cup {w.file}
    /\ QueueUpdate(mark_resolved(queue_state, current_file, assigned_type), current_file)
    /\ state' = DONE
    /\ panel' = "done"
    /\ UNCHANGED <<current_file, classification, assigned_type, extraction_result,
                   gap_analysis, tree, return_file_path, selections,
                   attempts, defines, on_define_new, sessionVars, otherVars>>

\* "Next File" / "Back to Queue"
_next_file ==
    /\ panel \in {"done", "error"}
    /\ state' = IDLE
    /\ panel' = "empty"
    /\ tree' = _refresh_tree(queue_state)
    /\ UNCHANGED <<current_file, classification, assigned_type, extraction_result,
                   gap_analysis, return_file_path, workers, selections,
                   attempts, queueVars, fsVars, defines, on_define_new, sessionVars, otherVars>>

\* what stage_file has written when it raises: nothing yet (hash_file or
\* archive_to_vault raised), or the vault copy and the moved file without its
\* sidecar (generate_sidecar raised)
stage_file_raises(w, at) ==
    /\ at \in {"hash", "sidecar"}
    /\ at # "hash" => w.file \in review_dir
    /\ vault_dir' = IF at # "hash" THEN vault_dir \cup {w.file} ELSE vault_dir
    /\ review_dir' = IF at = "sidecar" THEN review_dir \ {w.file} ELSE review_dir
    /\ staging_dir' = IF at = "sidecar" THEN staging_dir \cup {w.file} ELSE staging_dir
    /\ UNCHANGED sidecar_dir

\* an except branch that goes on as if the step had succeeded
task_raises_and_resolves(w, at, shown) ==
    /\ Running(w)
    /\ workers' = Finish(workers, w)
    /\ IF w.kind = "stage" THEN stage_file_raises(w, at)
       ELSE at = "hash" /\ UNCHANGED fsVars
    /\ panel' = IF shown THEN "error" ELSE panel
    /\ state' = IF w.kind = "stage" THEN DONE ELSE state
    /\ IF w.kind = "stage"
       THEN QueueUpdate(mark_resolved(queue_state, current_file, assigned_type), current_file)
       ELSE UNCHANGED queueVars
    /\ UNCHANGED <<current_file, classification, assigned_type, extraction_result,
                   gap_analysis, tree, return_file_path, attempts,
                   selections, defines, on_define_new, sessionVars, otherVars>>

\* a thread raises: "except Exception as e" schedules lambda: _show_error(f"...{e}").
\* e is unbound once the except block is left, so the callback shows the error
\* panel only if it runs before that; otherwise it dies with a NameError.
task_raises(w, at, shown) ==
    /\ Running(w)
    /\ workers' = Finish(workers, w)
    /\ IF w.kind = "stage" THEN stage_file_raises(w, at)
       ELSE at = "hash" /\ UNCHANGED fsVars
    /\ panel' = IF shown THEN "error" ELSE panel
    /\ UNCHANGED <<state, current_file, classification, assigned_type, extraction_result,
                   gap_analysis, tree, return_file_path, attempts,
                   selections, queueVars, defines, on_define_new, sessionVars, otherVars>>

----------------------------------------------------------------------------
(* The intake pipeline: file names, guards, routing, vault and sidecar.     *)
(* A file name is a record of its stem (a sequence of string tokens) and    *)
(* its suffix, as pathlib splits it.  A file's bytes are identified with    *)
(* the number of its arrival, so no two arriving files have equal bytes.    *)

MaxArrivals == 3
MaxClock == 2
MaxCalls == 3
MaxIntake == 1
TicksPerSecond == 2

N_a == [stem |-> <<"a">>, suffix |-> ".pdf"]
N_a_1 == [stem |-> <<"a", "_", "1">>, suffix |-> ".pdf"]
N_json == [stem |-> <<"a">>, suffix |-> ".json"]
N_hidden == [stem |-> <<".", "a">>, suffix |-> ".pdf"]
N_tmp == [stem |-> <<"a">>, suffix |-> ".TMP"]

\* what the guards look at besides the name
Plain == [is_file |-> TRUE, st_size |-> 1, locked |-> FALSE, encrypted |-> FALSE]
Directory == [Plain EXCEPT !.is_file = FALSE]
ZeroByte == [Plain EXCEPT !.st_size = 0]
Locked == [Plain EXCEPT !.locked = TRUE]
Encrypted == [Plain EXCEPT !.encrypted = TRUE]

\* the files that may arrive in the intake area
ArrivingFiles ==
    {<<n, Plain>> : n \in {N_a, N_a_1, N_json, N_hidden, N_tmp}}
        \cup {<<N_a, k>> : k \in {Directory, ZeroByte, Locked, Encrypted}}

StagingStems == {"s1", "s2"}
NoPath == [stem |-> "None", suffix |-> "None"]
NoVaultName == [stem |-> <<>>, suffix |-> "None"]
Scores == {50, 70}
Thresholds == {70}
RaisePoints == {"none", "classify", "move", "generate_sidecar"}

\* str.lower() on the suffixes that occur
lower(s) == IF s = ".TMP" THEN ".tmp" ELSE s

Digits == <<"0", "1", "2", "3", "4", "5", "6", "7", "8", "9">>

\* str(n) for a natural number, as decimal digits
RECURSIVE str(_)
str(n) == IF n < 10 THEN <<Digits[n + 1]>> ELSE str(n \div 10) \o <<Digits[(n % 10) + 1]>>

\* f"{x}" for a float given in hundredths: the shortest repr
repr(h) ==
    str(h \div 100) \o <<".">> \o
        (IF h % 10 = 0 THEN str((h % 100) \div 10)
                       ELSE <<Digits[((h % 100) \div 10) + 1], Digits[(h % 10) + 1]>>)

\* datetime.now().strftime("%Y%m%d%H%M%S"): the clock cut to whole seconds
strftime(t) == <<"20260101">> \o <<"00", "00">> \o
                   (IF t \div TicksPerSecond < 10 THEN <<"0">> ELSE <<>>) \o str(t \div TicksPerSecond)

\* hashlib.sha256 of a file's bytes: distinct bytes, distinct digests
hash_file(content) == <<"sha256", content>>

Remove(f, k) == [x \in DOMAIN f \ {k} |-> f[x]]
Put(f, k, v) == [x \in DOMAIN f \cup {k} |-> IF x = k THEN v ELSE f[x]]

check_file(dir, name) ==
    IF name \notin DOMAIN dir THEN "file_not_found"
    ELSE IF ~dir[name].is_file THEN "not_a_file"
    ELSE IF dir[name].st_size = 0 THEN "zero_byte_file"
    ELSE IF dir[name].locked THEN "file_locked"
    ELSE IF Head(name.stem) \in {".", "~$"} THEN "temp_or_hidden_file"
    ELSE IF lower(name.suffix) \in {".tmp", ".crdownload", ".partial"} THEN "incomplete_download"
    ELSE IF lower(name.suffix) = ".pdf" /\ dir[name].encrypted THEN "password_protected_pdf"
    ELSE None

\* the while loop of move_to_review: the first free <stem>_<counter><suffix>
RECURSIVE free_target(_, _, _)
free_target(review, name, counter) ==
    LET target == [stem |-> name.stem \o <<"_">> \o str(counter), suffix |-> name.suffix]
    IN IF target \in DOMAIN review THEN free_target(review, name, counter + 1) ELSE target

move_to_review_overwriting(review, name, content) ==
    Put(review, name, content)

\* the review directory after shutil.move of the file into it
move_to_review(review, name, content) ==
    LET target == IF name \in DOMAIN review THEN free_target(review, name, 1) ELSE name
    IN Put(review, target, content)

routing_strict(best_type, score, threshold) ==
    IF best_type = None \/ score = <<>>
    THEN [decision |-> "review", reason |-> <<"no_candidate">>]
    ELSE IF score[1] <= threshold
    THEN [decision |-> "review",
          reason |-> <<"score_">> \o repr(score[1]) \o <<"_below_threshold_">> \o repr(threshold)]
    ELSE [decision |-> "auto_file",
          reason |-> <<"score_">> \o repr(score[1]) \o <<"_meets_threshold_">> \o repr(threshold)]

\* the routing route_file returns; score is <<>> for None, <<s>> for a float
routing(best_type, score, threshold) ==
    IF best_type = None \/ score = <<>>
    THEN [decision |-> "review", reason |-> <<"no_candidate">>]
    ELSE IF score[1] < threshold
    THEN [decision |-> "review",
          reason |-> <<"score_">> \o repr(score[1]) \o <<"_below_threshold_">> \o repr(threshold)]
    ELSE [decision |-> "auto_file",
          reason |-> <<"score_">> \o repr(score[1]) \o <<"_meets_threshold_">> \o repr(threshold)]

\* type_cfg.get("code", "000") of the one configured type
doc_type_code(type_name) == IF type_name = "invoice" THEN "003" ELSE "000"

\* the name archive_to_vault copies to
vault_dest(vault, name, code, now) ==
    LET dest == [stem |-> <<code, "0">> \o name.stem, suffix |-> name.suffix]
    IN IF dest \in DOMAIN vault
       THEN [stem |-> dest.stem \o <<"_">> \o strftime(now), suffix |-> dest.suffix]
       ELSE dest

\* the vault directory after shutil.copy2
archive_to_vault(vault, name, content, code, now) ==
    Put(vault, vault_dest(vault, name, code, now), content)

\* staged_dest and the path generate_sidecar writes, both in staging_path
staged_dest(staging_stem, ext) == [stem |-> staging_stem, suffix |-> ext]
sidecar_file(staging_filename) == [stem |-> staging_filename.stem, suffix |-> ".json"]

Document(content) ==
    [kind |-> "document", content |-> content, source_hash |-> <<>>,
     vault_file |-> NoVaultName, staging_filename |-> "None"]

\* sidecar_data, as far as it names the document, its hash and its vault copy
generate_sidecar(staging_filename, vault_file, file_hash) ==
    [kind |-> "sidecar", content |-> 0, source_hash |-> file_hash,
     vault_file |-> vault_file, staging_filename |-> staging_filename.stem]

NoName == [stem |-> <<>>, suffix |-> "None"]
IntakeNames == {N_a, N_a_1, N_json, N_hidden, N_tmp}

NoArgs == [best_type |-> None, score |-> <<>>, threshold |-> 0]

\* the record kept of a call: what it was given, how it ended, what it logged
Call(op, name, content, outcome, decision, reason, errors) ==
    [seq |-> last_call.seq + 1, op |-> op, file |-> name, args |-> NoArgs, content |-> content, outcome |-> outcome,
     decision |-> decision, reason |-> reason, errors |-> errors]
NoCall == [seq |-> 0, op |-> "none", file |-> NoName, args |-> NoArgs, content |-> 0, outcome |-> "none",
           decision |-> "none", reason |-> <<>>, errors |-> 0]

\* hash -> vault -> staging name -> move -> sidecar, the same statements in
\* process_file and in stage_file; raise_at names the statement that raises
Staging(name, content, type_name, staging_stem, raise_at, via) ==
    LET code == doc_type_code(type_name)
        vault_file == vault_dest(vault_files, name, code, clock)
        archived == archive_to_vault(vault_files, name, content, code, clock)
        staging_filename == staged_dest(staging_stem, name.suffix)
        moved == Put(staging_files, staging_filename, Document(content))
        written == Put(moved, sidecar_file(staging_filename),
                       generate_sidecar(staging_filename, vault_file, hash_file(content)))
        entry == [content |-> content, staged |-> staging_filename,
                  sidecar |-> sidecar_file(staging_filename), vault |-> vault_file, via |-> via]
    IN IF raise_at = "move"
       THEN [raised |-> TRUE, moved |-> FALSE, vault |-> archived,
             staging |-> staging_files, ledger |-> ledger]
       ELSE IF raise_at = "generate_sidecar"
       THEN [raised |-> TRUE, moved |-> TRUE, vault |-> archived,
             staging |-> moved, ledger |-> ledger]
       ELSE [raised |-> FALSE, moved |-> TRUE, vault |-> archived,
             staging |-> written, ledger |-> ledger \cup {entry}]

\* route_file on a file of the intake area
route_file(name, best_type, score, threshold) ==
    LET route == routing(best_type, score, threshold)
        content == intake_dir[name].content
    IN /\ last_call.seq < MaxCalls
       /\ name \in DOMAIN intake_dir
       /\ last_call' = [Call("route_file", name, content, "returned", route.decision, route.reason, 0)
                           EXCEPT !.args = [best_type |-> best_type, score |-> score,
                                            threshold |-> threshold]]
       /\ IF route.decision = "review"
          THEN /\ review_files' = move_to_review(review_files, name, content)
               /\ intake_dir' = Remove(intake_dir, name)
          ELSE UNCHANGED <<intake_dir, review_files>>
       /\ UNCHANGED <<staging_files, vault_files, ref_store, clock, arrivals, ledger>>

process_file_moving_rejected(name, best_type, score, threshold, missing, learned, staging_stem, raise_at) ==
    LET guard_reason == check_file(intake_dir, name)
    IN /\ last_call.seq < MaxCalls
       /\ guard_reason # None
       /\ last_call' = Call("process_file", name, 0, "returned", "rejected", <<guard_reason>>, 1)
       /\ intake_dir' = Remove(intake_dir, name)
       /\ review_files' = IF name \in DOMAIN intake_dir
                          THEN move_to_review(review_files, name, intake_dir[name].content)
                          ELSE review_files
       /\ UNCHANGED <<staging_files, vault_files, ref_store, clock, arrivals, ledger>>

\* process_file on one path of the intake area.  The classifier's and the
\* extractor's answers are inputs: the best candidate and its score, the
\* required fields still missing after resolve_fields, the entities
\* resolve_fields saved (learned) and the stem generate_staging_name built.
process_file(name, best_type, score, threshold, missing, learned, staging_stem, raise_at) ==
    LET guard_reason == check_file(intake_dir, name)
        content == intake_dir[name].content
        route == routing(best_type, score, threshold)
        st == Staging(name, content, best_type, staging_stem, raise_at, "process_file")
    IN /\ last_call.seq < MaxCalls
       /\ UNCHANGED <<clock, arrivals>>
       /\ IF guard_reason # None
          THEN /\ last_call' = Call("process_file", name, 0, "returned", "rejected", <<guard_reason>>, 1)
               /\ UNCHANGED <<intake_dir, review_files, staging_files, vault_files, ref_store, ledger>>
          ELSE IF raise_at = "classify"
          THEN /\ last_call' = Call("process_file", name, content, "raised", "none", <<>>, 1)
               /\ UNCHANGED <<intake_dir, review_files, staging_files, vault_files, ref_store, ledger>>
          ELSE IF route.decision = "review"
          THEN /\ review_files' = move_to_review(review_files, name, content)
               /\ intake_dir' = Remove(intake_dir, name)
               /\ last_call' = Call("process_file", name, content, "returned", "review", route.reason, 0)
               /\ UNCHANGED <<staging_files, vault_files, ref_store, ledger>>
          ELSE IF missing # <<>>
          THEN /\ ref_store' = ref_store \cup learned
               /\ review_files' = move_to_review(review_files, name, content)
               /\ intake_dir' = Remove(intake_dir, name)
               /\ last_call' = Call("process_file", name, content, "returned", "review",
                                    <<"missing_extraction_fields:">> \o join(",", missing), 0)
               /\ UNCHANGED <<staging_files, vault_files, ledger>>
          ELSE /\ ref_store' = ref_store \cup learned
               /\ vault_files' = st.vault
               /\ staging_files' = st.staging
               /\ ledger' = st.ledger
               /\ intake_dir' = IF st.moved THEN Remove(intake_dir, name) ELSE intake_dir
               /\ last_call' = IF st.raised
                               THEN Call("process_file", name, content, "raised", "auto_file", route.reason, 1)
                               ELSE Call("process_file", name, content, "returned", "auto_file", route.reason, 0)
               /\ UNCHANGED review_files

\* stage_file on a file of the review area, with the type and the manual
\* values the reviewer gave; learned is what _auto_add_manual_references saved
stage_file(name, type_name, learned, staging_stem, raise_at) ==
    LET content == review_files[name]
        st == Staging(name, content, type_name, staging_stem, raise_at, "stage_file")
    IN /\ last_call.seq < MaxCalls
       /\ name \in DOMAIN review_files
       /\ ref_store' = ref_store \cup learned
       /\ vault_files' = st.vault
       /\ staging_files' = st.staging
       /\ ledger' = st.ledger
       /\ review_files' = IF st.moved THEN Remove(review_files, name) ELSE review_files
       /\ last_call' = IF st.raised
                       THEN Call("stage_file", name, content, "raised", "none", <<>>, 0)
                       ELSE Call("stage_file", name, content, "returned", "none", <<>>, 0)
       /\ UNCHANGED <<intake_dir, clock, arrivals>>

\* a new file (or directory) appears in the intake area
Arrive(name, kind) ==
    /\ arrivals < MaxArrivals
    /\ Cardinality(DOMAIN intake_dir) < MaxIntake
    /\ name \notin DOMAIN intake_dir
    /\ arrivals' = arrivals + 1
    /\ intake_dir' = Put(intake_dir, name, [content |-> arrivals + 1, is_file |-> kind.is_file,
                                            st_size |-> kind.st_size, locked |-> kind.locked,
                                            encrypted |-> kind.encrypted])
    /\ UNCHANGED <<review_files, staging_files, vault_files, ref_store, clock, last_call, ledger>>

\* the wall clock advances
Tick ==
    /\ clock < MaxClock
    /\ clock' = clock + 1
    /\ UNCHANGED <<intake_dir, review_files, staging_files, vault_files, ref_store, arrivals,
                   last_call, ledger>>

----------------------------------------------------------------------------
(* IntakeHandler.on_created (autofiler.py and gui/intake_tab.py): the       *)
(* deduplication of creation events.  on_created may be entered by several  *)
(* threads; the block under self._lock is one step.  Time is in seconds of  *)
(* time.monotonic(); an event's time is the value on_created reads.         *)

MaxHandlers == 2
MaxEvents == 3
MaxTime == 16
_DEDUP_WINDOW == 5

RawPaths == {<<"in", "a.pdf">>, <<"in", ".", "a.pdf">>, <<"in", "b.pdf">>}

\* os.path.normpath: the "." components are dropped
RECURSIVE normpath(_)
normpath(p) ==
    IF p = <<>> THEN <<>>
    ELSE IF Head(p) = "." THEN normpath(Tail(p))
    ELSE <<Head(p)>> \o normpath(Tail(p))

NoEvent == [id |-> 0, path |-> <<>>, time |-> 0, ignored |-> FALSE]
Idle == [pc |-> "idle", id |-> 0, path |-> <<>>, since |-> 0]

\* self._recently_processed.get(file_path, 0)
last_processed(path) ==
    IF path \in DOMAIN recently_processed THEN recently_processed[path] ELSE 0

prune_half_window(entries, t) ==
    [k \in {x \in DOMAIN entries : entries[x] > t - _DEDUP_WINDOW \div 2} |-> entries[k]]

\* the entries kept by the prune: those newer than now - 2 * _DEDUP_WINDOW
prune(entries, t) ==
    [k \in {x \in DOMAIN entries : entries[x] > t - _DEDUP_WINDOW * 2} |-> entries[k]]

\* a creation event for a directory: on_created returns at once
on_created_directory(raw) ==
    /\ events < MaxEvents
    /\ events' = events + 1
    /\ last_event' = [id |-> events + 1, path |-> normpath(raw), time |-> monotonic,
                      ignored |-> TRUE]
    /\ UNCHANGED <<monotonic, recently_processed, handlers, present, accepted_log, invoked>>

\* a creation event for a file, handled by thread h up to the end of the
\* block under self._lock
on_created(h, raw) ==
    LET file_path == normpath(raw)
        id == events + 1
    IN /\ events < MaxEvents
       /\ handlers[h].pc = "idle"
       /\ events' = id
       /\ present' = present \cup {file_path}
       /\ IF monotonic - last_processed(file_path) < _DEDUP_WINDOW
          THEN /\ last_event' = [id |-> id, path |-> file_path, time |-> monotonic,
                                 ignored |-> TRUE]
               /\ UNCHANGED <<recently_processed, handlers, accepted_log>>
          ELSE /\ last_event' = [id |-> id, path |-> file_path, time |-> monotonic,
                                 ignored |-> FALSE]
               /\ recently_processed' = prune(Put(recently_processed, file_path, monotonic),
                                              monotonic)
               /\ handlers' = [handlers EXCEPT ![h] =
                                  [pc |-> "sleep", id |-> id, path |-> file_path,
                                   since |-> monotonic]]
               /\ accepted_log' = accepted_log \cup
                                      {[id |-> id, path |-> file_path, time |-> monotonic]}
       /\ UNCHANGED <<monotonic, invoked>>

\* time.sleep(1) is over; the file is gone and on_created returns
on_created_gone(h) ==
    /\ handlers[h].pc = "sleep"
    /\ monotonic >= handlers[h].since + 1
    /\ handlers[h].path \notin present
    /\ handlers' = [handlers EXCEPT ![h] = Idle]
    /\ UNCHANGED <<monotonic, recently_processed, present, events, last_event, accepted_log,
                   invoked>>

\* time.sleep(1) is over, the file is there: config.reload() and process_file
on_created_process(h) ==
    /\ handlers[h].pc = "sleep"
    /\ monotonic >= handlers[h].since + 1
    /\ handlers[h].path \in present
    /\ handlers' = [handlers EXCEPT ![h].pc = "process_file"]
    /\ invoked' = invoked \cup {handlers[h].id}
    /\ UNCHANGED <<monotonic, recently_processed, present, events, last_event, accepted_log>>

\* process_file returns or raises; it has moved the file away or left it
\* (rejected by a guard, or raised before the move)
on_created_return(h, moved) ==
    /\ handlers[h].pc = "process_file"
    /\ handlers' = [handlers EXCEPT ![h] = Idle]
    /\ present' = IF moved THEN present \ {handlers[h].path} ELSE present
    /\ UNCHANGED <<monotonic, recently_processed, events, last_event, accepted_log, invoked>>

\* time.monotonic() advances
Advance ==
    /\ monotonic < MaxTime
    /\ monotonic' = monotonic + 1
    /\ UNCHANGED <<recently_processed, handlers, present, events, last_event, accepted_log,
                   invoked>>

\* a handler just constructed; time.monotonic() has an arbitrary origin
DedupIdle ==
    /\ monotonic = 0
    /\ recently_processed = << >>
    /\ handlers = [h \in 1..MaxHandlers |-> Idle]
    /\ present = {}
    /\ events = 0
    /\ last_event = NoEvent
    /\ accepted_log = {}
    /\ invoked = {}

----------------------------------------------------------------------------
(* The shared configuration store: fieldname_ref.json, read and written     *)
(* through ConfigLoader's cache, and type_definitions.json, read and        *)
(* written on disk.  A document is the set of its keys.  Four threads each  *)
(* do one read-modify-write: resolve_fields (intake pipeline or review      *)
(* worker), add_entity_reference and _read_modify_write (review-time        *)
(* learning, under _config_lock) and persist_type (new-type persistence).   *)

Updaters == {"resolve_fields", "add_entity_reference", "_read_modify_write", "persist_type"}
Locking == {"add_entity_reference", "_read_modify_write"}

\* the key each read-modify-write adds
new_key(t) ==
    IF t = "resolve_fields" THEN "globex"
    ELSE IF t = "add_entity_reference" THEN "initech"
    ELSE IF t = "_read_modify_write" THEN "keyword"
    ELSE "new_type"

\* ConfigLoader._load: the cached dict object, read from disk if there is none
_load(relative_path) ==
    IF cache = 0
    THEN /\ heap' = Append(heap, ref_disk)
         /\ cache' = Len(heap) + 1
    ELSE UNCHANGED <<heap, cache>>

\* IntakeHandler.on_created: config.reload() before process_file
reload ==
    /\ pcs["resolve_fields"] = "idle"
    /\ cache' = 0
    /\ td_cache' = <<>>
    /\ pcs' = [pcs EXCEPT !["resolve_fields"] = "reloaded"]
    /\ UNCHANGED <<config_lock, reference_entries, td, ref_disk, heap, td_disk, added>>

\* resolve_fields: reference_entries = config.load_reference(REF_PATH)
resolve_fields_load ==
    /\ pcs["resolve_fields"] \in {"idle", "reloaded"}
    /\ _load("fieldname_ref.json")
    /\ reference_entries' = [reference_entries EXCEPT !["resolve_fields"] = cache']
    /\ pcs' = [pcs EXCEPT !["resolve_fields"] = "loaded"]
    /\ UNCHANGED <<config_lock, td, ref_disk, td_disk, added, td_cache>>

\* add_entity_reference: with _config_lock: entries = config.load_reference(REF_PATH)
add_entity_reference_load ==
    /\ pcs["add_entity_reference"] = "idle"
    /\ config_lock = None
    /\ config_lock' = "add_entity_reference"
    /\ _load("fieldname_ref.json")
    /\ reference_entries' = [reference_entries EXCEPT !["add_entity_reference"] = cache']
    /\ pcs' = [pcs EXCEPT !["add_entity_reference"] = "loaded"]
    /\ UNCHANGED <<td, ref_disk, td_disk, added, td_cache>>

\* reference_entries[entity_key] = entity_dict: the loaded dict is changed in place
mutate(t) ==
    /\ t \in {"resolve_fields", "add_entity_reference"}
    /\ pcs[t] = "loaded"
    /\ heap' = [heap EXCEPT ![reference_entries[t]] = @ \cup {new_key(t)}]
    /\ pcs' = [pcs EXCEPT ![t] = "mutated"]
    /\ UNCHANGED <<config_lock, reference_entries, td, ref_disk, cache, td_disk, added, td_cache>>

\* config.save_reference(REF_PATH, reference_entries): write the dict, cache it;
\* add_entity_reference then leaves the with block
save_reference(t) ==
    /\ t \in {"resolve_fields", "add_entity_reference"}
    /\ pcs[t] = "mutated"
    /\ ref_disk' = heap[reference_entries[t]]
    /\ cache' = reference_entries[t]
    /\ config_lock' = IF t \in Locking THEN None ELSE config_lock
    /\ pcs' = [pcs EXCEPT ![t] = "done"]
    /\ added' = added \cup {new_key(t)}
    /\ UNCHANGED <<reference_entries, td, heap, td_disk, td_cache>>

\* td = json.loads(td_path.read_text()): _read_modify_write under
\* _config_lock, persist_type without it
read_text(t) ==
    /\ t \in {"_read_modify_write", "persist_type"}
    /\ pcs[t] = "idle"
    /\ IF t \in Locking
       THEN config_lock = None /\ config_lock' = t
       ELSE UNCHANGED config_lock
    /\ td' = [td EXCEPT ![t] = td_disk]
    /\ pcs' = [pcs EXCEPT ![t] = "loaded"]
    /\ UNCHANGED <<reference_entries, ref_disk, cache, heap, td_disk, added, td_cache>>

\* td_path.write_text(json.dumps(td)) and the reload that follows:
\* config.reload("type_definitions.json") in _read_modify_write, which then
\* leaves the with block; config.reload() of every document in persist_type
write_text(t) ==
    /\ t \in {"_read_modify_write", "persist_type"}
    /\ pcs[t] = "loaded"
    /\ td_disk' = td[t] \cup {new_key(t)}
    /\ cache' = IF t = "persist_type" THEN 0 ELSE cache
    /\ td_cache' = <<>>
    /\ config_lock' = IF t \in Locking THEN None ELSE config_lock
    /\ pcs' = [pcs EXCEPT ![t] = "done"]
    /\ added' = added \cup {new_key(t)}
    /\ UNCHANGED <<reference_entries, td, ref_disk, heap>>

(* Readers of type_definitions.json through ConfigLoader._load, which      *)
(* takes no lock: the test of the cache, the read of the file and the      *)
(* assignment to the cache are three steps of a reader thread.             *)

MaxReaders == 2

TdKeys == {"keyword", "new_type"}
NoRead == [content |-> {}, after |-> {}]
NotReading == [pc |-> "idle", text |-> {}, after |-> {}]

\* ConfigLoader._load: if relative_path not in self._cache; a hit returns
\* the cached dict.  after: the mutations that had returned when the read began
_load_test(r) ==
    /\ readers[r].pc = "idle"
    /\ IF td_cache # <<>>
       THEN /\ last_read' = [content |-> td_cache[1], after |-> added \cap TdKeys]
            /\ UNCHANGED readers
       ELSE /\ readers' = [readers EXCEPT ![r] =
                              [pc |-> "missing", text |-> {}, after |-> added \cap TdKeys]]
            /\ UNCHANGED last_read
    /\ UNCHANGED configVars

\* json.loads(full.read_text(encoding="utf-8"))
_load_read_text(r) ==
    /\ readers[r].pc = "missing"
    /\ readers' = [readers EXCEPT ![r].pc = "parsed", ![r].text = td_disk]
    /\ UNCHANGED <<last_read, configVars>>

\* self._cache[relative_path] = ...; return self._cache[relative_path]
_load_store(r) ==
    /\ readers[r].pc = "parsed"
    /\ td_cache' = <<readers[r].text>>
    /\ last_read' = [content |-> readers[r].text, after |-> readers[r].after]
    /\ readers' = [readers EXCEPT ![r] = NotReading]
    /\ UNCHANGED <<config_lock, pcs, reference_entries, td, ref_disk, cache, heap, td_disk, added>>

\* the intake watcher's config.reload(): self._cache.clear()
watcher_reload ==
    /\ td_cache' = <<>>
    /\ cache' = 0
    /\ UNCHANGED <<config_lock, pcs, reference_entries, td, ref_disk, heap, td_disk, added>>
    /\ UNCHANGED cacheVars

CacheIdle ==
    /\ readers = [r \in 1..MaxReaders |-> NotReading]
    /\ last_read = NoRead

\* the documents on disk, nothing cached, no update under way
ConfigIdle ==
    /\ config_lock = None
    /\ pcs = [t \in Updaters |-> "idle"]
    /\ reference_entries = [t \in {"resolve_fields", "add_entity_reference"} |-> 0]
    /\ td = [t \in {"_read_modify_write", "persist_type"} |-> {}]
    /\ ref_disk = {"acme"}
    /\ cache = 0
    /\ heap = <<>>
    /\ td_disk = {"invoice"}
    /\ added = {}
    /\ td_cache = <<>>

----------------------------------------------------------------------------
(* Learning operations of config_learner on type_definitions.json and on    *)
(* References/fieldname_ref.json.  A Python string is the sequence of its   *)
(* characters.                                                             *)

MaxEntities == 3

ascii_uppercase ==
    << "A", "B", "C", "D", "E", "F", "G", "H", "I", "J", "K", "L",
       "M", "N", "O", "P", "Q", "R", "S", "T", "U", "V", "W", "X",
       "Y", "Z" >>
ascii_lowercase ==
    << "a", "b", "c", "d", "e", "f", "g", "h", "i", "j", "k", "l",
       "m", "n", "o", "p", "q", "r", "s", "t", "u", "v", "w", "x",
       "y", "z" >>

\* str.lower() of one character
lower_char(c) ==
    IF c \in Range(ascii_uppercase)
    THEN ascii_lowercase[CHOOSE i \in DOMAIN ascii_uppercase : ascii_uppercase[i] = c]
    ELSE c

\* str.lower()
str_lower(s) == [i \in DOMAIN s |-> lower_char(s[i])]

\* re.compile(pattern) raises re.error: over the characters the model uses,
\* when a parenthesis is unbalanced
RECURSIVE re_error_from(_, _)
re_error_from(pattern, depth) ==
    IF pattern = <<>> THEN depth # 0
    ELSE IF Head(pattern) = "(" THEN re_error_from(Tail(pattern), depth + 1)
    ELSE IF Head(pattern) = ")" THEN depth = 0 \/ re_error_from(Tail(pattern), depth - 1)
    ELSE re_error_from(Tail(pattern), depth)

re_error(pattern) == re_error_from(pattern, 0)

TypeNames == {"invoice", "receipt"}
FieldNames == {"vendor"}
Keywords == {<<"t", "a", "x">>, <<"T", "a", "x">>, <<"T", "A", "X">>, <<"a", "c">>}
KeywordLists ==
    {<<k>> : k \in Keywords}
        \cup {<< <<"t", "a", "x">>, <<"T", "a", "x">> >>, << <<"T", "A", "X">>, <<"a", "c">> >>}
PatternStrings == {<<"t", "a", "x">>, <<"(", "a", ")">>, <<"(", "a">>, <<"a", ")">>}
PatternLists == {<<p>> : p \in PatternStrings} \cup {<< <<"(", "a">>, <<"(", "a", ")">> >>}
LearnedNames == {<<"a", "c">>, <<"a", ".", "c">>}
Roles == {"vendor", "customer"}
NoLearning == [op |-> "none", added |-> 0, again |-> FALSE]

\* the loop of add_keywords_to_type's mutator with a case-sensitive test
RECURSIVE add_keywords_case_sensitive(_, _, _)
add_keywords_case_sensitive(content_keywords, new_keywords, count) ==
    IF new_keywords = <<>> THEN [content_keywords |-> content_keywords, added |-> count]
    ELSE LET kw == Head(new_keywords)
         IN IF kw \notin Range(content_keywords)
            THEN add_keywords_case_sensitive(Append(content_keywords, kw), Tail(new_keywords), count + 1)
            ELSE add_keywords_case_sensitive(content_keywords, Tail(new_keywords), count)

\* the loop of add_keywords_to_type's mutator: existing holds the lowered
\* keywords of the list, each appended keyword is added to it
RECURSIVE add_keywords(_, _, _)
add_keywords(content_keywords, new_keywords, count) ==
    IF new_keywords = <<>> THEN [content_keywords |-> content_keywords, added |-> count]
    ELSE LET kw == Head(new_keywords)
             existing == {str_lower(k) : k \in Range(content_keywords)}
         IN IF str_lower(kw) \notin existing
            THEN add_keywords(Append(content_keywords, kw), Tail(new_keywords), count + 1)
            ELSE add_keywords(content_keywords, Tail(new_keywords), count)

\* the loop of add_patterns_to_type's and add_extraction_patterns' mutators
RECURSIVE add_patterns(_, _, _)
add_patterns(patterns, new_patterns, count) ==
    IF new_patterns = <<>> THEN [patterns |-> patterns, added |-> count]
    ELSE LET pattern == Head(new_patterns)
         IN IF re_error(pattern) THEN add_patterns(patterns, Tail(new_patterns), count)
            ELSE IF pattern \notin Range(patterns)
            THEN add_patterns(Append(patterns, pattern), Tail(new_patterns), count + 1)
            ELSE add_patterns(patterns, Tail(new_patterns), count)

add_keywords_to_type(type_name, new_keywords) ==
    LET typedef == types[type_name]
        result == add_keywords(typedef.content_keywords, new_keywords, 0)
        known == type_name \in DOMAIN types
    IN /\ types' = IF known
                   THEN [types EXCEPT ![type_name].content_keywords = result.content_keywords]
                   ELSE types
       /\ learn_call' = [op |-> "add_keywords_to_type",
                         added |-> IF known THEN result.added ELSE 0,
                         again |-> \A i \in DOMAIN new_keywords :
                                      <<type_name, str_lower(new_keywords[i])>> \in taught]
       /\ taught' = IF known
                    THEN taught \cup {<<type_name, str_lower(new_keywords[i])>> :
                                         i \in DOMAIN new_keywords}
                    ELSE taught
       /\ UNCHANGED fieldname_ref

add_patterns_to_type(type_name, new_patterns) ==
    LET typedef == types[type_name]
        result == add_patterns(typedef.content_patterns, new_patterns, 0)
        known == type_name \in DOMAIN types
    IN /\ types' = IF known
                   THEN [types EXCEPT ![type_name].content_patterns = result.patterns]
                   ELSE types
       /\ learn_call' = [op |-> "add_patterns_to_type",
                         added |-> IF known THEN result.added ELSE 0, again |-> FALSE]
       /\ UNCHANGED <<fieldname_ref, taught>>

add_extraction_patterns(type_name, field_name, new_patterns) ==
    LET typedef == types[type_name]
        field_defs == typedef.extraction_fields
        result == add_patterns(field_defs[field_name].patterns, new_patterns, 0)
        known == type_name \in DOMAIN types /\ field_name \in DOMAIN field_defs
    IN /\ types' = IF known
                   THEN [types EXCEPT ![type_name].extraction_fields[field_name].patterns =
                                          result.patterns]
                   ELSE types
       /\ learn_call' = [op |-> "add_extraction_patterns",
                         added |-> IF known THEN result.added ELSE 0, again |-> FALSE]
       /\ UNCHANGED <<fieldname_ref, taught>>

add_extraction_field(type_name, field_name, field_config) ==
    LET typedef == types[type_name]
        field_defs == typedef.extraction_fields
        new == type_name \in DOMAIN types /\ field_name \notin DOMAIN field_defs
    IN /\ types' = IF new
                   THEN [types EXCEPT ![type_name].extraction_fields =
                            [f \in DOMAIN field_defs \cup {field_name} |->
                                IF f = field_name THEN field_config ELSE field_defs[f]]]
                   ELSE types
       /\ learn_call' = [op |-> "add_extraction_field", added |-> 0, again |-> FALSE]
       /\ UNCHANGED <<fieldname_ref, taught>>

\* A dict is the sequence of its items in insertion order, which json.dumps
\* and json.loads keep.
Keys(dict) == {dict[i].key : i \in DOMAIN dict}

\* dict[key]
GetItem(dict, key) == dict[CHOOSE i \in DOMAIN dict : dict[i].key = key].value

\* dict[key] = value: a new key is appended, a known key keeps its position
SetItem(dict, key, value) ==
    IF key \in Keys(dict)
    THEN [i \in DOMAIN dict |-> IF dict[i].key = key THEN [key |-> key, value |-> value]
                                 ELSE dict[i]]
    ELSE Append(dict, [key |-> key, value |-> value])

\* re.sub(r"[^a-z0-9]+", "_", slug): a run of other characters becomes one "_"
RECURSIVE sub_non_alnum(_, _)
sub_non_alnum(slug, in_run) ==
    IF slug = <<>> THEN <<>>
    ELSE IF Head(slug) \in {"a", "c", "t", "x", "2", "3"}
    THEN <<Head(slug)>> \o sub_non_alnum(Tail(slug), FALSE)
    ELSE IF in_run THEN sub_non_alnum(Tail(slug), TRUE)
    ELSE <<"_">> \o sub_non_alnum(Tail(slug), TRUE)

RECURSIVE strip_underscore(_)
strip_underscore(slug) ==
    IF slug # <<>> /\ Head(slug) = "_" THEN strip_underscore(Tail(slug))
    ELSE IF slug # <<>> /\ slug[Len(slug)] = "_"
    THEN strip_underscore(SubSeq(slug, 1, Len(slug) - 1))
    ELSE slug

\* _generate_entity_key: slugify a name to a reference key
_generate_entity_key(entity_name) ==
    strip_underscore(sub_non_alnum(str_lower(entity_name), FALSE))

\* while entity_key in entries: entity_key = f"{base_key}_{suffix}"; suffix += 1
RECURSIVE free_key(_, _, _)
free_key(entries, base_key, suffix) ==
    LET entity_key == base_key \o <<"_">> \o str(suffix)
    IN IF entity_key \in Keys(entries) THEN free_key(entries, base_key, suffix + 1)
       ELSE entity_key

collision_free_key(entries, base_key) ==
    IF base_key \in Keys(entries) THEN free_key(entries, base_key, 2) ELSE base_key

\* a new entity as create_entity and add_entity_reference build it
new_entity(entity_name, role, type_code) ==
    [name |-> entity_name, aliases |-> <<>>, roles |-> <<role>>,
     doc_types |-> <<type_code>>]

add_entity_reference(entity_name, role, type_code) ==
    LET entity_key == collision_free_key(fieldname_ref, _generate_entity_key(entity_name))
    IN /\ Len(fieldname_ref) < MaxEntities
       /\ fieldname_ref' = SetItem(fieldname_ref, entity_key,
                                   new_entity(entity_name, role, type_code))
       /\ learn_call' = [op |-> "add_entity_reference", added |-> 1, again |-> FALSE]
       /\ UNCHANGED <<types, taught>>

\* a type with a keyword, a pattern and no extraction field; one entity
LearnIdle ==
    /\ types = [t \in {"invoice"} |->
                   [content_keywords |-> <<<<"a", "c">>>>,
                    content_patterns |-> <<<<"t", "a", "x">>>>,
                    extraction_fields |-> << >>]]
    /\ fieldname_ref = <<[key |-> <<"a", "c">>,
                          value |-> new_entity(<<"A", "c">>, "vendor", "100")]>>
    /\ learn_call = NoLearning
    /\ taught = {}

----------------------------------------------------------------------------
(* fuzzy_matcher: difflib.SequenceMatcher and the two matching functions.   *)
(* A ratio 2.0 * matches / length is the pair of its numerator and its      *)
(* denominator; a threshold is given in hundredths.                         *)

\* _normalize: lower() and strip()
_normalize(s) == strip(str_lower(s))

Ratio(num, den) == [num |-> num, den |-> den]
Zero == Ratio(0, 1)
One == Ratio(1, 1)

\* ratio > best_ratio
Greater(r1, r2) == r1.num * r2.den > r2.num * r1.den

\* best_ratio >= threshold
AtLeast(r, hundredths) == r.num * 100 >= hundredths * r.den

\* the length of the common run of a from i and b from j (0-based, bounded)
RECURSIVE common_run(_, _, _, _, _, _)
common_run(a, b, i, j, ahi, bhi) ==
    IF i < ahi /\ j < bhi /\ a[i + 1] = b[j + 1]
    THEN 1 + common_run(a, b, i + 1, j + 1, ahi, bhi)
    ELSE 0

\* SequenceMatcher.find_longest_match: the longest matching block of
\* a[alo:ahi] and b[blo:bhi]; of those the one starting earliest in a, and
\* of those the one starting earliest in b
find_longest_match(a, b, alo, ahi, blo, bhi) ==
    LET starts == {<<i, j>> : i \in alo..(ahi - 1), j \in blo..(bhi - 1)}
        block(s) == [i |-> s[1], j |-> s[2],
                     size |-> common_run(a, b, s[1], s[2], ahi, bhi)]
        blocks == {block(s) : s \in starts}
        before(m, o) == m.i < o.i \/ (m.i = o.i /\ m.j <= o.j)
    IN IF starts = {} THEN [i |-> alo, j |-> blo, size |-> 0]
       ELSE CHOOSE m \in blocks :
               \A o \in blocks : o.size < m.size \/ (o.size = m.size /\ before(m, o))

\* SequenceMatcher.get_matching_blocks: the sum of the block sizes, the
\* longest block first, then the pieces left and right of it
RECURSIVE matches(_, _, _, _, _, _)
matches(a, b, alo, ahi, blo, bhi) ==
    LET around(m) ==
            IF m.size = 0 THEN 0
            ELSE m.size
                 + (IF alo < m.i /\ blo < m.j THEN matches(a, b, alo, m.i, blo, m.j) ELSE 0)
                 + (IF m.i + m.size < ahi /\ m.j + m.size < bhi
                    THEN matches(a, b, m.i + m.size, ahi, m.j + m.size, bhi) ELSE 0)
    IN around(find_longest_match(a, b, alo, ahi, blo, bhi))

\* SequenceMatcher(None, a, b).ratio()
ratio_of(a, b) ==
    IF Len(a) + Len(b) = 0 THEN One
    ELSE Ratio(2 * matches(a, b, 0, Len(a), 0, Len(b)), Len(a) + Len(b))

\* the (key, candidate) pairs in the order the loops visit them: for each
\* entry its name, then its aliases
RECURSIVE Candidates(_)
Candidates(entries) ==
    IF entries = <<>> THEN <<>>
    ELSE LET entry == Head(entries)
         IN [i \in 1..(1 + Len(entry.value.aliases)) |->
                [key |-> entry.key,
                 candidate |-> IF i = 1 THEN entry.value.name
                               ELSE entry.value.aliases[i - 1]]]
            \o Candidates(Tail(entries))

NoMatch == [key |-> <<>>, ratio |-> Zero, exact |-> FALSE]

\* the loops of fuzzy_match and fuzzy_match_with_support: an exact match
\* returns at once, otherwise the first candidate of the greatest ratio stays
RECURSIVE best_match(_, _, _)
best_match(query_norm, candidates, best) ==
    IF candidates = <<>> THEN best
    ELSE LET compared(key, candidate_norm) ==
                 LET kept(ratio) ==
                         IF Greater(ratio, best.ratio)
                         THEN [key |-> <<key>>, ratio |-> ratio, exact |-> FALSE]
                         ELSE best
                 IN IF candidate_norm = <<>> THEN best_match(query_norm, Tail(candidates), best)
                    ELSE IF query_norm = candidate_norm
                    THEN [key |-> <<key>>, ratio |-> One, exact |-> TRUE]
                    ELSE best_match(query_norm, Tail(candidates),
                                    kept(ratio_of(query_norm, candidate_norm)))
         IN compared(Head(candidates).key, _normalize(Head(candidates).candidate))

\* fuzzy_match without the exact-match return and with ratio > threshold
fuzzy_match_above(query, entries, hundredths) ==
    LET accepted(best) ==
            IF best.ratio.num * 100 > hundredths * best.ratio.den
            THEN [key |-> best.key, ratio |-> best.ratio]
            ELSE [key |-> <<>>, ratio |-> best.ratio]
    IN IF _normalize(query) = <<>> THEN [key |-> <<>>, ratio |-> Zero]
       ELSE accepted(best_match(_normalize(query), Candidates(entries), NoMatch))

\* fuzzy_match: (matched_key, best_ratio), the key <<>> for None
fuzzy_match(query, entries, hundredths) ==
    LET accepted(best) ==
            IF best.exact THEN [key |-> best.key, ratio |-> One]
            ELSE IF AtLeast(best.ratio, hundredths)
            THEN [key |-> best.key, ratio |-> best.ratio]
            ELSE [key |-> <<>>, ratio |-> best.ratio]
    IN IF _normalize(query) = <<>> THEN [key |-> <<>>, ratio |-> Zero]
       ELSE accepted(best_match(_normalize(query), Candidates(entries), NoMatch))

\* the check of the supporting fields with every supplied value accepted
any_confirms_unchecked(matched_entry, supporting_values) ==
    supporting_values # <<>>

\* the loop over supporting_values: some supplied value equals, normalized,
\* the matched entry's attribute of the same name
RECURSIVE any_confirms(_, _)
any_confirms(matched_entry, supporting_values) ==
    IF supporting_values = <<>> THEN FALSE
    ELSE LET extracted_val == Head(supporting_values).value
             ref_val == matched_entry[Head(supporting_values).field]
         IN IF extracted_val = <<>> \/ ref_val = <<>>
            THEN any_confirms(matched_entry, Tail(supporting_values))
            ELSE \/ _normalize(extracted_val) = _normalize(ref_val)
                 \/ any_confirms(matched_entry, Tail(supporting_values))

\* fuzzy_match_with_support: (matched_key, best_ratio), the key <<>> for None
fuzzy_match_with_support(query, entries, hundredths, supporting_values) ==
    LET accepted(best) ==
            IF best.exact THEN [key |-> best.key, ratio |-> One]
            ELSE IF ~AtLeast(best.ratio, hundredths) \/ best.key = <<>>
            THEN [key |-> <<>>, ratio |-> best.ratio]
            ELSE IF supporting_values = <<>> THEN [key |-> best.key, ratio |-> best.ratio]
            ELSE IF any_confirms(GetItem(entries, best.key[1]), supporting_values)
            THEN [key |-> best.key, ratio |-> best.ratio]
            ELSE [key |-> <<>>, ratio |-> best.ratio]
    IN IF _normalize(query) = <<>> THEN [key |-> <<>>, ratio |-> Zero]
       ELSE accepted(best_match(_normalize(query), Candidates(entries), NoMatch))

----------------------------------------------------------------------------
(* Entities: field_resolver.resolve_fields, review_engine's registration    *)
(* of manual entries and cross_referencer.cross_reference_fields            *)

fuzzy_match_threshold == 80
MaxEntries == 2

ExtractedNames == {<<"a", "c">>, <<"a", ".", "c">>, <<"a", " ", "c">>}
TypeCodes == {"100", "200"}
\* the (name, role, type code) triples looked up: a name equal to the first
\* entity's but for its case, names that differ from it in one character,
\* for the role it has and for another
Lookups ==
    {<<n, "vendor", code>> : n \in {<<"a", "c">>, <<"a", ".", "c">>}, code \in TypeCodes}
        \cup {<<n, "customer", "100">> : n \in ExtractedNames}
Addresses == {<<>>, <<"x">>, <<"X">>, <<"t">>}
NoResolution == [op |-> "none", method |-> "none", entity_key |-> <<>>]

\* _update_entity_metadata appending without the membership tests
_update_entity_metadata_appending(entity, role, type_code) ==
    [entity EXCEPT !.roles = Append(@, role), !.doc_types = Append(@, type_code)]

\* _update_entity_metadata: idempotent append to roles and doc_types
_update_entity_metadata(entity, role, type_code) ==
    [entity EXCEPT !.roles = IF role \in Range(@) THEN @ ELSE Append(@, role),
                   !.doc_types = IF type_code \in Range(@) THEN @ ELSE Append(@, type_code)]

\* create_entity: (entity_key, entity_dict)
create_entity(raw_value, role, type_code, entries) ==
    [key |-> collision_free_key(entries, _generate_entity_key(raw_value)),
     value |-> new_entity(raw_value, role, type_code)]

\* the entries whose roles contain the role; all of them for an empty role
role_filtered(entries, role) ==
    IF role # "" THEN SelectSeq(entries, LAMBDA item : role \in Range(item.value.roles))
    ELSE entries

\* the lookup of raw_value among candidates and what it does to the
\* reference: a match updates the matched entity, no match creates an entity
lookup_or_create(raw_value, role, type_code, candidates, entries) ==
    LET inserted(created) ==
            [entries |-> SetItem(entries, created.key, created.value),
             method |-> "auto_created", entity_key |-> <<created.key>>]
        looked_up(m) ==
            IF m.key # <<>>
            THEN [entries |-> SetItem(entries, m.key[1],
                                      _update_entity_metadata(GetItem(entries, m.key[1]),
                                                              role, type_code)),
                  method |-> "fuzzy_match", entity_key |-> m.key]
            ELSE inserted(create_entity(raw_value, role, type_code, entries))
    IN looked_up(fuzzy_match(raw_value, candidates, 80))

\* resolve_fields on a reference, for one field with a reference_lookup
\* whose value the extraction found (Scenario A)
resolved(raw_value, role, type_code, entries) ==
    lookup_or_create(raw_value, role, type_code, role_filtered(entries, role), entries)

\* resolve_fields: the reference is saved
resolve_fields(raw_value, role, type_code) ==
    \E result \in {resolved(raw_value, role, type_code, fieldname_ref)} :
       /\ Len(result.entries) <= MaxEntities
       /\ fieldname_ref' = result.entries
       /\ resolve_call' = [op |-> "resolve_fields", method |-> result.method,
                           entity_key |-> result.entity_key]
       /\ UNCHANGED <<types, learn_call, taught, ref_data>>

\* _auto_add_manual_references for one manual value with a reference_lookup
_auto_add_manual_references(value, role, type_code) ==
    \E result \in {lookup_or_create(value, role, type_code, fieldname_ref, fieldname_ref)} :
       /\ Len(result.entries) <= MaxEntities
       /\ fieldname_ref' = result.entries
       /\ resolve_call' = [op |-> "_auto_add_manual_references", method |-> result.method,
                           entity_key |-> result.entity_key]
       /\ UNCHANGED <<types, learn_call, taught, ref_data>>

\* add_entity_reference as review_tab._apply_learning_a calls it for a phrase
\* routed to "(new entity)"
add_entity_reference_call(phrase, role, type_code) ==
    /\ add_entity_reference(phrase, role, type_code)
    /\ resolve_call' = [op |-> "add_entity_reference", method |-> "auto_created",
                        entity_key |-> <<fieldname_ref'[Len(fieldname_ref')].key>>]
    /\ UNCHANGED ref_data

\* _build_new_entry: (key, entry) with the other extracted fields attached
_build_new_entry(raw_value, address) ==
    [key |-> strip_underscore(sub_non_alnum(str_lower(raw_value), FALSE)),
     value |-> [name |-> raw_value, aliases |-> <<>>, address |-> address]]

\* cross_reference_fields for one field with a cross_reference, with the
\* supporting field "address"
cross_reference_fields(raw_value, address, create_if_missing) ==
    \E supporting_values \in
          {IF address # <<>> THEN <<[field |-> "address", value |-> address]>> ELSE <<>>},
       new \in {_build_new_entry(raw_value, address)} :
    \E m \in {fuzzy_match_with_support(raw_value, ref_data, fuzzy_match_threshold,
                                       supporting_values)} :
       /\ IF m.key # <<>>
          THEN /\ resolve_call' = [op |-> "cross_reference_fields",
                                   method |-> "fuzzy_match", entity_key |-> m.key]
               /\ UNCHANGED ref_data
          ELSE IF create_if_missing
          THEN /\ Len(SetItem(ref_data, new.key, new.value)) <= MaxEntries
               /\ ref_data' = SetItem(ref_data, new.key, new.value)
               /\ resolve_call' = [op |-> "cross_reference_fields",
                                   method |-> "auto_created", entity_key |-> <<new.key>>]
          ELSE /\ resolve_call' = [op |-> "cross_reference_fields",
                                   method |-> "unresolved", entity_key |-> <<>>]
               /\ UNCHANGED ref_data
       /\ UNCHANGED learnVars

\* a cross-reference file with one entry, no resolution yet
ResolveIdle ==
    /\ ref_data = <<[key |-> <<"a", "c">>,
                     value |-> [name |-> <<"A", "c">>, aliases |-> <<>>, address |-> <<"x">>]]>>
    /\ resolve_call = NoResolution

----------------------------------------------------------------------------
(* scorer: score_candidates and select_best_candidate.  A weight and a      *)
(* score are given in hundred-thousandths, so that round(total, 4) rounds.  *)

SignalKinds == <<"format_match", "keyword_match", "pattern_match", "reference_match">>

\* signal_weights tables: two decimals, kinds without a weight, five decimals
WeightTables ==
    {[format_match |-> 10000, keyword_match |-> 35000, pattern_match |-> 35000,
      reference_match |-> 20000],
     [keyword_match |-> 50000, reference_match |-> 20000],
     [format_match |-> 33333, keyword_match |-> 33333, pattern_match |-> 33333]}

\* the matched_signals lists classify_file builds: kinds in the fixed order
SignalLists ==
    {<<"keyword_match">>, <<"format_match", "reference_match">>,
     <<"format_match", "keyword_match">>,
     <<"format_match", "keyword_match", "pattern_match">>}

CandidateTypes == <<"invoice", "receipt", "letter">>
MaxCandidates == 3

\* classification_result["candidates"]: the first n types with their signals
CandidateSets ==
    UNION {{[i \in 1..n |-> [key |-> CandidateTypes[i],
                             value |-> [matched_signals |-> signals[i]]]] :
               signals \in [1..n -> SignalLists]} : n \in 0..MaxCandidates}

MinSignals == {1, 2, 3}

\* round(total, 4) of a total in hundred-thousandths: the nearest multiple of
\* ten (the totals of WeightTables never lie halfway)
round4(total) == ((total + 5) \div 10) * 10

\* weights.get(signal, 0.0) with a default of one tenth
weight_of_defaulting(weights, signal) ==
    IF signal \in DOMAIN weights THEN weights[signal] ELSE 10000

\* weights.get(signal, 0.0)
weight_of(weights, signal) ==
    IF signal \in DOMAIN weights THEN weights[signal] ELSE 0

\* total += weight over matched_signals
RECURSIVE total_of(_, _)
total_of(weights, matched_signals) ==
    IF matched_signals = <<>> THEN 0
    ELSE weight_of(weights, Head(matched_signals)) + total_of(weights, Tail(matched_signals))

\* score_candidates: type -> score, matched_signals, signal_breakdown
score_candidates(candidates, weights) ==
    [i \in DOMAIN candidates |->
        LET matched_signals == candidates[i].value.matched_signals
        IN [key |-> candidates[i].key,
            value |-> [score |-> round4(total_of(weights, matched_signals)),
                       matched_signals |-> matched_signals,
                       signal_breakdown |->
                           [signal \in Range(matched_signals) |-> weight_of(weights, signal)]]]]

NoBest == [name |-> None, data |-> <<>>]

\* the loop of select_best_candidate taking a candidate of equal score
RECURSIVE select_best_last(_, _, _)
select_best_last(scored, min_signals, best) ==
    IF scored = <<>> THEN best
    ELSE LET data == Head(scored).value
         IN IF Len(data.matched_signals) < min_signals
            THEN select_best_last(Tail(scored), min_signals, best)
            ELSE IF best.data = <<>> \/ data.score >= best.data[1].score
            THEN select_best_last(Tail(scored), min_signals,
                                  [name |-> Head(scored).key, data |-> <<data>>])
            ELSE select_best_last(Tail(scored), min_signals, best)

\* the loop of select_best_candidate: best_name, best_data
RECURSIVE select_best(_, _, _)
select_best(scored, min_signals, best) ==
    IF scored = <<>> THEN best
    ELSE LET data == Head(scored).value
         IN IF Len(data.matched_signals) < min_signals
            THEN select_best(Tail(scored), min_signals, best)
            ELSE IF best.data = <<>> \/ data.score > best.data[1].score
            THEN select_best(Tail(scored), min_signals,
                             [name |-> Head(scored).key, data |-> <<data>>])
            ELSE select_best(Tail(scored), min_signals, best)

\* select_best_candidate: (type_name, score_data), (None, None) as NoBest
select_best_candidate(scored, min_signals) == select_best(scored, min_signals, NoBest)

NoScoring ==
    [weights |-> << >>, candidates |-> <<>>, min_signals |-> 0, scored |-> <<>>,
     best |-> NoBest, scoring |-> FALSE]

\* the scoring step of process_file and of classify_and_score
score_call(candidates, weights, min_signals) ==
    LET scored == score_candidates(candidates, weights)
    IN scorer_call' = [weights |-> weights, candidates |-> candidates,
                       min_signals |-> min_signals, scored |-> scored,
                       best |-> select_best_candidate(scored, min_signals),
                       scoring |-> TRUE]

----------------------------------------------------------------------------
(* Calls of the matching functions with their arguments and results *)

\* strings to match: names, a name in another case and with blanks around,
\* the empty string and a blank
QueryStrings ==
    {<<"a", "c">>, <<" ", "A", "c">>, <<"a", ".", "c">>, <<"t", "a", "x">>, <<>>, <<" ">>}
Thresholds100 == {-10, 0, 50, 80, 100}
SupportingValues == {<<>>, <<"x">>, <<" ", "X">>, <<"t">>}

Entry(key, entry_name, aliases, address) ==
    [key |-> key, value |-> [name |-> entry_name, aliases |-> aliases, address |-> address]]

\* a reference holding one entity k named x
Single(x) == <<Entry(<<"k">>, x, <<>>, <<>>)>>

\* references of several entries, with an alias and with addresses
References ==
    {<<Entry(<<"a", "c">>, <<"A", "c">>, <<>>, <<"x">>),
       Entry(<<"t", "a", "x">>, <<"t", "a", "x">>, <<<<"a", ".", "c">>>>, <<>>)>>,
     <<Entry(<<"a", "_", "c">>, <<"a", " ", "c">>, <<>>, <<"X">>),
       Entry(<<"a", "c">>, <<"a", "c", "c">>, <<>>, <<"t">>)>>,
     <<>>}

NoMatching ==
    [op |-> "none", query |-> <<>>, entries |-> <<>>, threshold |-> 0,
     supporting_values |-> <<>>, result |-> [key |-> <<>>, ratio |-> Zero]]

\* fuzzy_match(query, reference_entries, threshold)
fuzzy_match_call(query, entries, hundredths) ==
    fuzzy_call' = [op |-> "fuzzy_match", query |-> query, entries |-> entries,
                   threshold |-> hundredths, supporting_values |-> <<>>,
                   result |-> fuzzy_match(query, entries, hundredths)]

\* fuzzy_match_with_support(query, reference_entries, threshold, supporting_values)
fuzzy_match_with_support_call(query, entries, hundredths, supporting_values) ==
    fuzzy_call' = [op |-> "fuzzy_match_with_support", query |-> query, entries |-> entries,
                   threshold |-> hundredths, supporting_values |-> supporting_values,
                   result |-> fuzzy_match_with_support(query, entries, hundredths,
                                                       supporting_values)]

----------------------------------------------------------------------------
(* content_matcher.extract_fields for one field of type text.  A pattern is *)
(* a literal followed by one group of repeated characters of a class, a     *)
(* literal without a group, or a string that does not compile.              *)

Pattern(kind, literal, class) == [kind |-> kind, literal |-> literal, class |-> class]

\* "V:" and "W:" with a group of x, "W:" with a group of blanks and x, "V:"
\* without a group, and a pattern that does not compile
ExtractionPatterns ==
    {Pattern("group", <<"V", ":">>, {"x"}), Pattern("group", <<"W", ":">>, {"x"}),
     Pattern("group", <<"W", ":">>, {" ", "x"}), Pattern("no_group", <<"V", ":">>, {}),
     Pattern("invalid", <<"(">>, {})}
ExtractionPatternLists ==
    {<<>>} \cup {<<p>> : p \in ExtractionPatterns}
        \cup {<<p, q>> : p, q \in ExtractionPatterns}
Texts ==
    {<<"V", ":", "x">>, <<"V", ":", "W", ":", "x">>, <<"v", ":", " ", "w", ":", " ", "x">>,
     <<"W", ":", " ">>, <<"t">>}

NoGroup == [found |-> FALSE, group |-> <<>>]

\* the run of characters of the class that starts the text (a greedy star)
RECURSIVE run_of(_, _)
run_of(class, text) ==
    IF text # <<>> /\ Head(text) \in class THEN <<Head(text)>> \o run_of(class, Tail(text))
    ELSE <<>>

\* re.search(pattern, text, re.IGNORECASE | re.MULTILINE) for a literal
\* with a group: the first place where the literal occurs, without regard
\* to case, and the group after it
RECURSIVE re_search(_, _)
re_search(pattern, text) ==
    LET n == Len(pattern.literal)
    IN IF Len(text) < n THEN NoGroup
       ELSE IF str_lower(SubSeq(text, 1, n)) = str_lower(pattern.literal)
       THEN [found |-> TRUE,
             group |-> run_of({lower_char(c) : c \in pattern.class}
                                 \cup pattern.class,
                              SubSeq(text, n + 1, Len(text)))]
       ELSE re_search(pattern, Tail(text))

\* the loop over the patterns: re.error and the IndexError of group(1) go
\* on to the next pattern, a match sets the value and breaks
RECURSIVE first_value(_, _)
first_value(patterns, text) ==
    IF patterns = <<>> THEN <<>>
    ELSE LET pattern == Head(patterns)
             match == re_search(pattern, text)
         IN IF pattern.kind = "invalid" THEN first_value(Tail(patterns), text)
            ELSE IF ~match.found THEN first_value(Tail(patterns), text)
            ELSE IF pattern.kind = "no_group" THEN first_value(Tail(patterns), text)
            ELSE strip(match.group)

NoExtraction ==
    [text |-> <<>>, patterns |-> <<>>, required |-> FALSE, extracted |-> <<>>,
     missing |-> FALSE, called |-> FALSE]

\* extract_fields for a type with one field: extracted holds the value if
\* it is non-empty, missing names the field if it is required and has none
extract_fields(text, patterns, required) ==
    LET value == first_value(patterns, text)
    IN extract_call' = [text |-> text, patterns |-> patterns, required |-> required,
                        extracted |-> value, missing |-> value = <<>> /\ required,
                        called |-> TRUE]

FnIdle ==
    /\ scorer_call = NoScoring
    /\ fuzzy_call = NoMatching
    /\ extract_call = NoExtraction

----------------------------------------------------------------------------
(* staging_namer: generate_staging_name with _truncate_left,                *)
(* _truncate_right, _parse_date and _sanitize                               *)

_FALLBACK == <<"0", "0", "0">>

\* str.split(sep) for a one-character separator
RECURSIVE split(_, _)
split(s, sep) ==
    IF \A i \in DOMAIN s : s[i] # sep THEN <<s>>
    ELSE LET parts(i) == <<SubSeq(s, 1, i - 1)>> \o split(SubSeq(s, i + 1, Len(s)), sep)
         IN parts(CHOOSE k \in DOMAIN s : s[k] = sep /\ \A j \in 1..(k - 1) : s[j] # sep)

is_digits(s) == s # <<>> /\ \A i \in DOMAIN s : s[i] \in Range(Digits)

\* int(s) for a string of digits
RECURSIVE to_int(_)
to_int(s) ==
    IF s = <<>> THEN 0
    ELSE 10 * to_int(SubSeq(s, 1, Len(s) - 1))
         + (CHOOSE n \in 0..9 : Digits[n + 1] = s[Len(s)])

\* str.zfill(width)
RECURSIVE zfill(_, _)
zfill(s, width) == IF Len(s) >= width THEN s ELSE zfill(<<"0">> \o s, width)

\* calendar.month_name, lowered; month_abbr is the first three letters
month_name ==
    << <<"j", "a", "n", "u", "a", "r", "y">>, <<"f", "e", "b", "r", "u", "a", "r", "y">>,
       <<"m", "a", "r", "c", "h">>, <<"a", "p", "r", "i", "l">>, <<"m", "a", "y">>,
       <<"j", "u", "n", "e">>, <<"j", "u", "l", "y">>, <<"a", "u", "g", "u", "s", "t">>,
       <<"s", "e", "p", "t", "e", "m", "b", "e", "r">>, <<"o", "c", "t", "o", "b", "e", "r">>,
       <<"n", "o", "v", "e", "m", "b", "e", "r">>, <<"d", "e", "c", "e", "m", "b", "e", "r">> >>

\* the formats of _DATE_FORMATS: the separator and the order of the directives
_DATE_FORMATS ==
    << [sep |-> "/", order |-> "mdY"], [sep |-> "-", order |-> "mdY"],
       [sep |-> "/", order |-> "mdy"], [sep |-> "-", order |-> "mdy"],
       [sep |-> "-", order |-> "Ymd"], [sep |-> "/", order |-> "Ymd"],
       [sep |-> "/", order |-> "dmY"], [sep |-> "-", order |-> "dmY"],
       [sep |-> " ", order |-> "B"], [sep |-> " ", order |-> "b"] >>

\* a ValueError of strptime
NoDate == <<>>

days_in_month(year, month) ==
    IF month = 2
    THEN (IF year % 4 = 0 /\ (year % 100 # 0 \/ year % 400 = 0) THEN 29 ELSE 28)
    ELSE IF month \in {4, 6, 9, 11} THEN 30 ELSE 31

\* datetime(year, month, day).strftime_Ymd("%Y%m%d")
strftime_Ymd(year, month, day) ==
    IF year >= 1 /\ day <= days_in_month(year, month)
    THEN zfill(str(year), 4) \o zfill(str(month), 2) \o zfill(str(day), 2)
    ELSE NoDate

\* the directives %m, %d, %Y and %y on the text between two separators
directive_m(p) == is_digits(p) /\ Len(p) \in 1..2 /\ to_int(p) \in 1..12
directive_d(p) == is_digits(p) /\ Len(p) \in 1..2 /\ to_int(p) \in 1..31
directive_Y(p) == is_digits(p) /\ Len(p) = 4
directive_y(p) == is_digits(p) /\ Len(p) = 2
century(yy) == IF yy < 69 THEN 2000 + yy ELSE 1900 + yy

\* strptime for a format of three numeric directives
numeric_date(parts, order) ==
    IF Len(parts) # 3 THEN NoDate
    ELSE IF order = "mdY" /\ directive_m(parts[1]) /\ directive_d(parts[2]) /\ directive_Y(parts[3])
    THEN strftime_Ymd(to_int(parts[3]), to_int(parts[1]), to_int(parts[2]))
    ELSE IF order = "mdy" /\ directive_m(parts[1]) /\ directive_d(parts[2]) /\ directive_y(parts[3])
    THEN strftime_Ymd(century(to_int(parts[3])), to_int(parts[1]), to_int(parts[2]))
    ELSE IF order = "Ymd" /\ directive_Y(parts[1]) /\ directive_m(parts[2]) /\ directive_d(parts[3])
    THEN strftime_Ymd(to_int(parts[1]), to_int(parts[2]), to_int(parts[3]))
    ELSE IF order = "dmY" /\ directive_d(parts[1]) /\ directive_m(parts[2]) /\ directive_Y(parts[3])
    THEN strftime_Ymd(to_int(parts[3]), to_int(parts[2]), to_int(parts[1]))
    ELSE NoDate

\* strptime for "%B %d, %Y" and "%b %d, %Y": a month name in any case,
\* white space, the day, a comma, white space, the year
named_date(s, order) ==
    LET name(n) == IF order = "B" THEN month_name[n] ELSE SubSeq(month_name[n], 1, 3)
        starts(n) == /\ Len(s) > Len(name(n))
                     /\ str_lower(SubSeq(s, 1, Len(name(n)))) = name(n)
                     /\ s[Len(name(n)) + 1] = " "
        rest(n) == split(lstrip(SubSeq(s, Len(name(n)) + 1, Len(s))), ",")
        dated(n, parts) ==
            IF /\ Len(parts) = 2
               /\ directive_d(parts[1])
               /\ parts[2] # <<>> /\ parts[2][1] = " "
               /\ directive_Y(lstrip(parts[2]))
            THEN strftime_Ymd(to_int(lstrip(parts[2])), n, to_int(parts[1]))
            ELSE NoDate
        months == {n \in 1..12 : starts(n)}
    IN IF months = {} THEN NoDate
       ELSE dated(CHOOSE n \in months : TRUE, rest(CHOOSE n \in months : TRUE))

\* datetime.strptime(s, fmt).strftime_Ymd("%Y%m%d"), NoDate for a ValueError
strptime(s, fmt) ==
    IF fmt.order \in {"B", "b"} THEN named_date(s, fmt.order)
    ELSE numeric_date(split(s, fmt.sep), fmt.order)

\* the loop over _DATE_FORMATS: the first format that parses
RECURSIVE first_format(_, _)
first_format(s, formats) ==
    IF formats = <<>> THEN NoDate
    ELSE LET parsed(d) == IF d # NoDate THEN d ELSE first_format(s, Tail(formats))
         IN parsed(strptime(s, Head(formats)))

\* _parse_date: mtime is the file's modified date as YYYYMMDD, <<>> when
\* os.path.getmtime raises OSError
_parse_date(raw, mtime) ==
    LET fallback == IF mtime # <<>> THEN mtime ELSE _FALLBACK
        parsed(d) == IF d # NoDate THEN d ELSE fallback
    IN IF raw # <<>> THEN parsed(first_format(strip(raw), _DATE_FORMATS)) ELSE fallback

\* _sanitize: the characters illegal in Windows file names removed, stripped
_sanitize(text) ==
    strip(SelectSeq(text, LAMBDA c : c \notin {"<", ">", ":", "\"", "/", "\\", "|", "?", "*"}))

\* value[:max_len]
_truncate_left_unstripped(value, max_len) ==
    SubSeq(value, 1, IF Len(value) < max_len THEN Len(value) ELSE max_len)

\* _truncate_left: value[:max_len].strip()
_truncate_left(value, max_len) ==
    strip(SubSeq(value, 1, IF Len(value) < max_len THEN Len(value) ELSE max_len))

\* _truncate_right: value[-max_len:].strip() for a longer value, else value.strip()
_truncate_right(value, max_len) ==
    IF Len(value) > max_len THEN strip(SubSeq(value, Len(value) - max_len + 1, Len(value)))
    ELSE strip(value)

\* dict.get(key, default) on a function
get(d, key, default) == IF key \in DOMAIN d THEN d[key] ELSE default

\* _resolve(slot): the extracted value of the field the slot is mapped to
_resolve(type_config, extracted_fields, slot) ==
    LET staging_map == get(type_config, "staging_fields", <<>>)
        field_name == get(staging_map, slot, "")
    IN IF field_name = "" THEN <<>> ELSE get(extracted_fields, field_name, <<>>)

\* generate_staging_name: (stem, modified_fields)
generate_staging_name(type_config, extracted_fields, mtime) ==
    LET code == zfill(get(type_config, "code", _FALLBACK), 3)
        raw(slot) == _resolve(type_config, extracted_fields, slot)
        left(value) == IF value # <<>> THEN _truncate_left(value, 15) ELSE _FALLBACK
        right(value, max_len) ==
            IF value # <<>> THEN _truncate_right(value, max_len) ELSE _FALLBACK
        named(modified_fields) ==
            [stem |-> _sanitize(code \o <<"_">> \o modified_fields.vendor
                                \o <<"_">> \o modified_fields.customer
                                \o <<"_">> \o modified_fields.date
                                \o <<"_">> \o modified_fields.reference
                                \o <<"_">> \o modified_fields.amount),
             modified_fields |-> modified_fields]
    IN named([vendor |-> left(raw("vendor")),
              customer |-> left(raw("customer")),
              date |-> _parse_date(raw("date"), mtime),
              reference |-> right(raw("reference"), 15),
              amount |-> right(raw("amount"), 9)])

\* extracted values: within the limits, longer without white space, longer
\* with white space at the cut, with characters a file name cannot hold
ShortName == <<"A", "c", "m", "e">>
LongName == <<"a", "b", "c", "d", "e", "f", "g", "h", "i", "j", "k", "l", "m", "n", "o", "p">>
GapName == <<"a", "b", "c", "d", "e", "f", "g", "h", "i", "j", "k", "l", "m", "n", " ", "p", "q">>
ShortReference == <<"A", "/", "7">>
LongReference == <<"i", "n", "v", "-", "0", "0", "1", "2", "3", "4", "5", "6", "7", "8", "9", "0">>
GapReference == <<"p", "o", " ", "0", "1", "2", "3", "4", "5", "6", "7", "8", "9", "0", "1", "2", "3">>
ShortAmount == <<"1", "2", ".", "5", "0">>
LongAmount == <<"1", "2", "3", "4", "5", "6", "7", ".", "8", "9">>
GapAmount == <<"$", " ", "1", "2", "3", "4", "5", ".", "6", "7">>
RawDates ==
    {<<>>,
     <<"0", "1", "/", "0", "2", "/", "2", "0", "2", "4">>,
     <<"2", "0", "2", "4", "-", "0", "2", "-", "3", "0">>,
     <<"M", "a", "r", " ", "5", ",", " ", "2", "0", "2", "4">>,
     <<"1", "3", "/", "0", "2", "/", "2", "4">>}
ModifiedDates == {<<>>, <<"2", "0", "2", "4", "0", "3", "0", "5">>}

\* type definitions: every slot mapped; a short code and no customer slot
TypeConfigs ==
    {[code |-> <<"1", "0", "0">>,
      staging_fields |-> [vendor |-> "vendor_name", customer |-> "customer_name",
                          date |-> "invoice_date", reference |-> "invoice_number",
                          amount |-> "total"]],
     [code |-> <<"7">>,
      staging_fields |-> [vendor |-> "vendor_name", date |-> "invoice_date",
                          reference |-> "invoice_number", amount |-> "total"]]}

ExtractedFields ==
    {[vendor_name |-> v, customer_name |-> c, invoice_date |-> d, invoice_number |-> r,
      total |-> a] :
        v \in {ShortName, LongName, GapName}, c \in {<<>>, LongName},
        d \in RawDates, r \in {ShortReference, LongReference, GapReference},
        a \in {ShortAmount, LongAmount, GapAmount}}

NoNaming == [op |-> "none"]

\* one call of generate_staging_name
generate_staging_name_call(type_config, extracted_fields, mtime) ==
    \E result \in {generate_staging_name(type_config, extracted_fields, mtime)} :
       namer_call' = [op |-> "generate_staging_name",
                      raw |-> [slot \in {"vendor", "customer", "date", "reference", "amount"} |->
                                  _resolve(type_config, extracted_fields, slot)],
                      stem |-> result.stem,
                      modified_fields |-> result.modified_fields]

NamerIdle == namer_call = NoNaming

----------------------------------------------------------------------------
(* Type creation: DefineTab._collect and _save with type_creator_core, and  *)
(* type_creator.create_new_type of the terminal review.  The GUI and the    *)
(* terminal review are two processes, each with its ConfigLoader, on the    *)
(* same configuration directory.  Of a type definition the code, the        *)
(* container formats, the keywords, the destination and the naming pattern  *)
(* are kept.                                                                *)

MaxTypes == 3
Loaders == {"gui", "cli"}

NotLoaded == [loaded |-> FALSE, types |-> <<>>]

\* ConfigLoader._load("type_definitions.json") in one step: (types, cache)
type_definitions_of(loader) ==
    IF loader_cache[loader].loaded THEN loader_cache[loader].types ELSE type_definitions

\* the cache after config.type_definitions
loaded_cache(loader) ==
    [loader_cache EXCEPT ![loader] = [loaded |-> TRUE, types |-> type_definitions_of(loader)]]

\* next_available_code: the least positive number that no numeric code has
next_available_code(existing_types) ==
    LET used == {to_int(existing_types[t].code) :
                     t \in {n \in DOMAIN existing_types : is_digits(existing_types[n].code)}}
    IN zfill(str(CHOOSE candidate \in 1..(MaxTypes + 2) :
                    /\ candidate \notin used
                    /\ \A c \in 1..(candidate - 1) : c \in used), 3)

\* re.match(r"^[a-z][a-z0-9_]*$", type_name)
is_type_name(type_name) ==
    /\ type_name # <<>>
    /\ type_name[1] \in Range(ascii_lowercase)
    /\ \A i \in DOMAIN type_name :
          type_name[i] \in Range(ascii_lowercase) \cup Range(Digits) \cup {"_"}

\* validate_type_definition returns no error
validate_type_definition(type_name, type_def, existing_types) ==
    /\ is_type_name(type_name)
    /\ type_name \notin DOMAIN existing_types
    /\ type_def.container_formats # <<>>
    /\ \A i \in DOMAIN type_def.container_formats : type_def.container_formats[i][1] = "."
    /\ type_def.content_keywords # <<>>
    /\ type_def.destination_subfolder # ""
    /\ type_def.naming_pattern # ""

\* build_type_definition
build_type_definition(code, form) ==
    [code |-> code, container_formats |-> form.container_formats,
     content_keywords |-> form.content_keywords,
     destination_subfolder |-> form.destination_subfolder,
     naming_pattern |-> form.naming_pattern]

\* persist_type and type_creator._persist_type: the three files are read
\* from disk, extended and written; config.reload() empties the cache
persist_type(loader, type_name, type_def) ==
    /\ type_definitions' = Put(type_definitions, type_name, type_def)
    /\ folder_mappings' = Put(folder_mappings, type_name, type_def.destination_subfolder)
    /\ naming_patterns' = Put(naming_patterns, type_name, type_def.naming_pattern)
    /\ loader_cache' = [loader_cache EXCEPT ![loader] = NotLoaded]

\* DefineTab._collect: (type_name, type_def) from the form
_collect(name_var, form) ==
    LET type_name == str_lower(strip(name_var))
        listed == {str_lower(form.content_keywords[i]) : i \in DOMAIN form.content_keywords}
        content_keywords ==
            IF type_name # <<>> /\ str_lower(type_name) \notin listed
            THEN <<type_name>> \o form.content_keywords ELSE form.content_keywords
        naming_pattern == IF form.naming_pattern # "" THEN form.naming_pattern
                          ELSE "{original_name}_{date}"
    IN [type_name |-> type_name,
        type_def |-> build_type_definition(
                         next_available_code(type_definitions_of("gui")),
                         [form EXCEPT !.content_keywords = content_keywords,
                                      !.naming_pattern = naming_pattern])]

\* DefineTab._save
_save(name_var, form) ==
    \E collected \in {_collect(name_var, form)} :
       IF validate_type_definition(collected.type_name, collected.type_def,
                                   type_definitions_of("gui"))
       THEN /\ Cardinality(DOMAIN type_definitions) < MaxTypes
            /\ persist_type("gui", collected.type_name, collected.type_def)
            /\ create_call' = [op |-> "_save", saved |-> TRUE]
            /\ UNCHANGED loading
       ELSE /\ loader_cache' = loaded_cache("gui")
            /\ create_call' = [op |-> "_save", saved |-> FALSE]
            /\ UNCHANGED <<type_definitions, folder_mappings, naming_patterns, loading>>

\* create_new_type: the prompts answered with name and form, the
\* confirmation with confirm
create_new_type(name, form, confirm) ==
    \E type_name \in {str_lower(strip(name))}, existing \in {type_definitions_of("cli")} :
       LET naming_pattern == IF form.naming_pattern # "" THEN form.naming_pattern
                             ELSE "{original_name}_{date}"
           new_type == build_type_definition(next_available_code(existing),
                                             [form EXCEPT !.naming_pattern = naming_pattern])
           cancelled(loaded) ==
               /\ loader_cache' = (IF loaded THEN loaded_cache("cli") ELSE loader_cache)
               /\ create_call' = [op |-> "create_new_type", saved |-> FALSE]
               /\ UNCHANGED <<type_definitions, folder_mappings, naming_patterns, loading>>
       IN IF type_name = <<>> THEN cancelled(FALSE)
          ELSE IF \/ type_name \in DOMAIN existing
                  \/ form.container_formats = <<>>
                  \/ form.content_keywords = <<>>
                  \/ form.destination_subfolder = ""
                  \/ ~confirm
          THEN cancelled(TRUE)
          ELSE /\ Cardinality(DOMAIN type_definitions) < MaxTypes
               /\ persist_type("cli", type_name, new_type)
               /\ create_call' = [op |-> "create_new_type", saved |-> TRUE]
               /\ UNCHANGED loading

\* config.type_definitions read by the main thread of a process
type_definitions_load(loader) ==
    /\ ~loader_cache[loader].loaded
    /\ loader_cache' = loaded_cache(loader)
    /\ UNCHANGED <<type_definitions, folder_mappings, naming_patterns, loading, create_call>>

\* ConfigLoader._load in a worker thread of the GUI: the file is read ...
worker_load_read ==
    /\ ~loader_cache["gui"].loaded
    /\ ~loading.loaded
    /\ loading' = [loaded |-> TRUE, types |-> type_definitions]
    /\ UNCHANGED <<type_definitions, folder_mappings, naming_patterns, loader_cache, create_call>>

\* ... and what was read is stored in the cache
worker_load_store ==
    /\ loading.loaded
    /\ loader_cache' = [loader_cache EXCEPT !["gui"] = loading]
    /\ loading' = NotLoaded
    /\ UNCHANGED <<type_definitions, folder_mappings, naming_patterns, create_call>>

\* the names and the forms entered
NameInputs ==
    {<<>>, <<"M", "e", "m", "o", " ">>, <<"t", "a", "x">>,
     <<"i", "n", "v", "o", "i", "c", "e">>, <<"2", "x">>}
Forms ==
    {[container_formats |-> f, content_keywords |-> << <<"d", "u", "e">> >>,
      destination_subfolder |-> d, naming_pattern |-> ""] :
        f \in {<< <<".", "p", "d", "f">> >>}, d \in {"A", "B"}}
    \cup {[container_formats |-> <<>>, content_keywords |-> << <<"d", "u", "e">> >>,
           destination_subfolder |-> "A", naming_pattern |-> ""],
          [container_formats |-> << <<"p", "d", "f">> >>, content_keywords |-> <<>>,
           destination_subfolder |-> "A", naming_pattern |-> ""],
          [container_formats |-> << <<".", "p", "d", "f">> >>,
           content_keywords |-> << <<"d", "u", "e">> >>,
           destination_subfolder |-> "", naming_pattern |-> ""]}

NoCreation == [op |-> "none", saved |-> FALSE]

\* one type, invoice with the code 001, and nothing loaded
CreatorIdle ==
    /\ type_definitions =
          (<<"i", "n", "v", "o", "i", "c", "e">> :>
              [code |-> <<"0", "0", "1">>, container_formats |-> << <<".", "p", "d", "f">> >>,
               content_keywords |-> << <<"i", "n", "v", "o", "i", "c", "e">> >>,
               destination_subfolder |-> "A", naming_pattern |-> "{original_name}_{date}"])
    /\ folder_mappings = (<<"i", "n", "v", "o", "i", "c", "e">> :> "A")
    /\ naming_patterns = (<<"i", "n", "v", "o", "i", "c", "e">> :> "{original_name}_{date}")
    /\ loader_cache = [l \in Loaders |-> NotLoaded]
    /\ loading = NotLoaded
    /\ create_call = NoCreation

----------------------------------------------------------------------------
(* review_engine.stage_file with a manually entered field: the entered      *)
(* value is registered in the entity reference before the file is hashed,   *)
(* archived, moved and described                                            *)

\* field_cfg.get("reference_lookup"): absent, the empty dict the Define tab
\* writes, or a dict with the role
ReferenceLookups ==
    {[defined |-> FALSE, config |-> <<>>], [defined |-> TRUE, config |-> <<>>],
     [defined |-> TRUE, config |-> [role |-> "vendor"]],
     [defined |-> TRUE, config |-> [role |-> "customer"]]}

NoStaging ==
    [op |-> "none", returned |-> FALSE, value |-> <<>>,
     lookup |-> [defined |-> FALSE, config |-> <<>>], type_code |-> ""]

\* stage_file with manual_fields of one field: _auto_add_manual_references
\* skips a field without a truthy reference_lookup; the steps after it
\* return or raise
stage_file_manual(value, lookup, type_code, returns) ==
    /\ IF lookup.defined /\ DOMAIN lookup.config # {}
       THEN _auto_add_manual_references(value, lookup.config.role, type_code)
       ELSE UNCHANGED <<learnVars, resolveVars>>
    /\ manual_call' = [op |-> "stage_file", returned |-> returns, value |-> value,
                       lookup |-> lookup, type_code |-> type_code]

ManualIdle == manual_call = NoStaging

----------------------------------------------------------------------------
(* The learning loop of a review: _apply_learning_a and _apply_learning_b   *)
(* persist on the main thread through _read_modify_write, then the          *)
(* extraction worker reads config.type_definitions; reader 1 is that        *)
(* worker, reader 2 a thread of the intake watcher in the same process      *)

\* _on_diagnosis_a_done and _on_diagnosis_b_done: the learning panel is shown
_on_diagnosis_done(phase) ==
    /\ loop.state = "DIAGNOSING"
    /\ loop' = [loop EXCEPT !.state = IF phase = "A" THEN "LEARNING_A" ELSE "LEARNING_B"]
    /\ UNCHANGED <<configVars, cacheVars>>

\* _apply_learning_a, _apply_learning_b: the approved items are persisted;
\* _read_modify_write takes the lock and reads the file ...
apply_learning_read ==
    /\ loop.state \in {"LEARNING_A", "LEARNING_B"}
    /\ read_text("_read_modify_write")
    /\ UNCHANGED <<loop, cacheVars>>

\* ... writes it and invalidates the cache; then _set_state(EXTRACTING) or
\* _set_state(RE_EXTRACTING) and the worker thread is started
apply_learning_write ==
    /\ loop.state \in {"LEARNING_A", "LEARNING_B"}
    /\ write_text("_read_modify_write")
    /\ loop' = [loop EXCEPT !.state = IF @ = "LEARNING_A" THEN "EXTRACTING"
                                      ELSE "RE_EXTRACTING"]
    /\ UNCHANGED cacheVars

\* attempt_extraction in the worker: config.type_definitions finds the
\* document in the cache
extraction_load_hit ==
    /\ loop.state \in {"EXTRACTING", "RE_EXTRACTING"}
    /\ td_cache # <<>>
    /\ _load_test(1)
    /\ loop' = [state |-> "extracted", read |-> td_cache[1]]

\* ... or does not find it, reads the file and stores it
extraction_load_miss ==
    /\ loop.state \in {"EXTRACTING", "RE_EXTRACTING"}
    /\ td_cache = <<>>
    /\ _load_test(1)
    /\ UNCHANGED loop

extraction_load_read_text ==
    /\ _load_read_text(1)
    /\ UNCHANGED loop

extraction_load_store ==
    /\ _load_store(1)
    /\ loop' = [state |-> "extracted", read |-> readers[1].text]

\* process_file in a thread of the intake watcher reads config.type_definitions
watcher_load ==
    /\ \/ _load_test(2)
       \/ _load_read_text(2)
       \/ _load_store(2)
    /\ UNCHANGED loop

LoopIdle == loop = [state |-> "DIAGNOSING", read |-> {}]

----------------------------------------------------------------------------
(* The learning record of a review: _reset_review_state empties it,        *)
(* _apply_learning_a fills keywords_added and patterns_added from the      *)
(* counts that the learner returns, _run_staging hands it to the sidecar   *)

\* approved[:count] if count else []
first_approved(approved, count) == IF count # 0 THEN SubSeq(approved, 1, count) ELSE <<>>

\* the approved keyword rows and the checked pattern rows of the panel
ApprovedKeywords ==
    {<<>>} \cup {<<k>> : k \in Keywords} \cup {<<j, k>> : j, k \in Keywords}
ApprovedPatterns ==
    {<<>>} \cup {<<p>> : p \in PatternStrings} \cup {<<p, q>> : p, q \in PatternStrings}

NothingAppended ==
    [applied |-> FALSE, approved_kw |-> <<>>, approved_pat |-> <<>>,
     keywords |-> <<>>, patterns |-> <<>>]

\* "Apply Learning" (phase A) with the rows routed to "keyword" and the
\* patterns checked: add_keywords_to_type and add_patterns_to_type run only
\* for a non-empty list, and the record keeps the first count approved items
apply_learning_a_record(assigned, approved_kw, approved_pat) ==
    /\ ~appended.applied
    /\ assigned \in DOMAIN types
    /\ \E kw \in {add_keywords(types[assigned].content_keywords, approved_kw, 0)},
          pat \in {add_patterns(types[assigned].content_patterns, approved_pat, 0)} :
          /\ types' = [types EXCEPT ![assigned].content_keywords = kw.content_keywords,
                                    ![assigned].content_patterns = pat.patterns]
          /\ learning_record' =
                [learning_record EXCEPT
                    !.keywords_added = IF approved_kw # <<>>
                                       THEN first_approved(approved_kw, kw.added) ELSE @,
                    !.patterns_added = IF approved_pat # <<>>
                                       THEN first_approved(approved_pat, pat.added) ELSE @]
          /\ appended' =
                [applied |-> TRUE,
                 approved_kw |-> approved_kw, approved_pat |-> approved_pat,
                 keywords |-> SubSeq(kw.content_keywords,
                                     Len(types[assigned].content_keywords) + 1,
                                     Len(kw.content_keywords)),
                 patterns |-> SubSeq(pat.patterns,
                                     Len(types[assigned].content_patterns) + 1,
                                     Len(pat.patterns))]
    /\ UNCHANGED <<fieldname_ref, learn_call, taught>>

RecordIdle ==
    /\ learning_record = [keywords_added |-> <<>>, patterns_added |-> <<>>]
    /\ appended = NothingAppended

----------------------------------------------------------------------------
(* The review tab with its queue, the review directory and the Define tab *)

\* no pipeline run yet: empty areas, a reference store with one entity
IntakeIdle ==
    /\ intake_dir = << >>
    /\ review_files = << >>
    /\ staging_files = << >>
    /\ vault_files = << >>
    /\ ref_store = {"acme"}
    /\ clock = 0
    /\ arrivals = 0
    /\ last_call = NoCall
    /\ ledger = {}

OtherIdle == IntakeIdle /\ DedupIdle /\ ConfigIdle /\ CacheIdle /\ LearnIdle /\ ResolveIdle /\ FnIdle /\ NamerIdle /\ CreatorIdle /\ ManualIdle /\ LoopIdle /\ RecordIdle

SessionOff ==
    /\ session_pc = "idle"
    /\ session_pending = <<>>
    /\ session_idx = 0
    /\ sidecar_path_set = FALSE
    /\ destination_dir = {}
    /\ skipped = {}

SessionIdle == OtherIdle /\ SessionOff

ReviewTabInit ==
    /\ state = IDLE
    /\ current_file = None
    /\ classification = None
    /\ assigned_type = None
    /\ extraction_result = NoResult
    /\ gap_analysis = None
    /\ panel = "empty"
    /\ tree = {}
    /\ on_define_new = FALSE
    /\ return_file_path = None
    /\ workers = EmptyBag
    /\ selections = 0
    /\ defines = 0
    /\ attempts = 0

StoreInit ==
    /\ state_file = << >>
    /\ queue_state = state_file
    /\ review_dir = Files
    /\ staging_dir = {}
    /\ sidecar_dir = {}
    /\ vault_dir = {}

Init == ReviewTabInit /\ StoreInit /\ SessionIdle

\* the review tab wired to the Define tab, one file waiting for review
InitDefine ==
    /\ on_define_new = TRUE
    /\ state = IDLE
    /\ current_file = None
    /\ classification = None
    /\ assigned_type = None
    /\ extraction_result = NoResult
    /\ gap_analysis = None
    /\ panel = "empty"
    /\ tree = {}
    /\ return_file_path = None
    /\ workers = EmptyBag
    /\ selections = 0
    /\ defines = 0
    /\ attempts = 0
    /\ state_file = << >>
    /\ queue_state = state_file
    /\ review_dir = {"a.pdf"}
    /\ staging_dir = {}
    /\ sidecar_dir = {}
    /\ vault_dir = {}
    /\ SessionIdle

ThreadsRunning == BagToSet(workers)

ManualEntries == UNION {[fs -> EntryValues] : fs \in SUBSET Range(RequiredFields)}

\* every step but a thread raising
NextNoRaise ==
    \/ _scan_queue
    \/ \E f \in Files : _on_file_select(f)
    \/ \E w \in ThreadsRunning, t \in Types \cup {None} : _on_classification_done(w, t)
    \/ \E selected \in Types \cup {""} : _confirm_type(selected)
    \/ \E w \in ThreadsRunning : _on_diagnosis_a_done(w)
    \/ _apply_learning_a
    \/ _skip_learning_a
    \/ \E w \in ThreadsRunning, m \in SubSeqs(RequiredFields) : _on_extraction_done(w, m)
    \/ _run_diagnosis_b
    \/ \E w \in ThreadsRunning : _on_diagnosis_b_done(w)
    \/ _apply_learning_b
    \/ _skip_learning_b
    \/ \E w \in ThreadsRunning, m \in SubSeqs(RequiredFields) : _on_re_extraction_done(w, m)
    \/ \E e \in ManualEntries : _stage_with_manual(e)
    \/ \E w \in ThreadsRunning : _on_staging_done(w)
    \/ _next_file

SpecNoRaise == Init /\ [][NextNoRaise]_vars

Next ==
    \/ NextNoRaise
    \/ \E w \in ThreadsRunning, at \in {"hash", "sidecar"}, shown \in BOOLEAN :
          task_raises(w, at, shown)

Spec == Init /\ [][Next]_vars

\* a background thread comes to its end: it returns and its callback runs,
\* or it raises and the callback of its except branch runs
thread_ends ==
    \/ \E w \in ThreadsRunning, t \in Types \cup {None} : _on_classification_done(w, t)
    \/ \E w \in ThreadsRunning : _on_diagnosis_a_done(w)
    \/ \E w \in ThreadsRunning, m \in SubSeqs(RequiredFields) : _on_extraction_done(w, m)
    \/ \E w \in ThreadsRunning : _on_diagnosis_b_done(w)
    \/ \E w \in ThreadsRunning, m \in SubSeqs(RequiredFields) : _on_re_extraction_done(w, m)
    \/ \E w \in ThreadsRunning : _on_staging_done(w)
    \/ \E w \in ThreadsRunning, at \in {"hash", "sidecar"}, shown \in BOOLEAN :
          task_raises(w, at, shown)

\* every thread that was started ends and its posted callback runs; the
\* reviewer presses the one button of the done and error panels
SpecFair == Spec /\ WF_vars(thread_ends) /\ WF_vars(_next_file)

\* ... and the reviewer keeps pressing "Scan Queue"
SpecRescan == SpecFair /\ WF_vars(_scan_queue)

NextDefine ==
    \/ Next
    \/ _define_new_type
    \/ \E t \in Types : resume_with_type(t)
    \/ resume_cancelled

SpecDefine == InitDefine /\ [][NextDefine]_vars

----------------------------------------------------------------------------
(* run_review_session: the terminal review session.  It blocks at the      *)
(* prompt of prompt_type_selection; what lies between two prompts is one   *)
(* step, except that scan() is a step of its own.  session_pc is "idle"    *)
(* when no session runs, "loop" at the head of the for loop, "prompt" at   *)
(* the prompt and "crashed" after an uncaught exception ended the process. *)

\* pending() sorts by modification time: any order of the pending names
Orders(S) == {o \in [1..Cardinality(S) -> S] : Range(o) = S}

\* queue = ReviewQueue(...); pending = queue.scan()
run_review_session_scan(order) ==
    /\ session_pc \in {"idle", "crashed"}
    /\ queue_state' = scan(_load_state(state_file), review_dir)
    /\ state_file' = _save_state(queue_state')
    /\ order \in Orders(pending(queue_state'))
    /\ session_pending' = order
    /\ session_idx' = 1
    /\ skipped' = {}
    /\ session_pc' = "loop"
    /\ UNCHANGED <<reviewVars, otherVars, fsVars, sidecar_path_set, destination_dir>>

\* "if not pending: return" and the end of the for loop
run_review_session_return ==
    /\ session_pc = "loop"
    /\ session_idx > Len(session_pending)
    /\ session_pc' = "idle"
    /\ UNCHANGED <<reviewVars, otherVars, queueVars, fsVars, session_pending, session_idx,
                   sidecar_path_set, destination_dir, skipped>>

\* the head of an iteration: mark_in_review, classify_file (which needs the
\* file), display, prompt
run_review_session_open ==
    /\ session_pc = "loop"
    /\ session_idx <= Len(session_pending)
    /\ LET file_path == session_pending[session_idx] IN
       /\ QueueUpdate(mark_in_review(queue_state, file_path), file_path)
       /\ session_pc' = IF file_path \in review_dir THEN "prompt" ELSE "crashed"
    /\ UNCHANGED <<reviewVars, otherVars, fsVars, session_pending, session_idx,
                   sidecar_path_set, destination_dir, skipped>>

\* action == "skip"
run_review_session_skip ==
    /\ session_pc = "prompt"
    /\ LET file_path == session_pending[session_idx] IN
       /\ QueueUpdate(mark_in_review(queue_state, file_path), file_path)
       /\ skipped' = skipped \cup {file_path}
    /\ session_idx' = session_idx + 1
    /\ session_pc' = "loop"
    /\ UNCHANGED <<reviewVars, otherVars, fsVars, session_pending, sidecar_path_set, destination_dir>>

\* action == "new" and create_new_type returns None
run_review_session_new_cancelled ==
    /\ session_pc = "prompt"
    /\ session_idx' = session_idx + 1
    /\ session_pc' = "loop"
    /\ UNCHANGED <<reviewVars, otherVars, queueVars, fsVars, session_pending, sidecar_path_set,
                   destination_dir, skipped>>

\* a type was selected or created: hash_file, file_to_destination, then
\* generate_sidecar(..., filing_result=result, ...) when sidecar_path is set --
\* a call generate_sidecar's signature rejects with a TypeError -- and
\* mark_resolved
run_review_session_file(type_name) ==
    /\ session_pc = "prompt"
    /\ LET file_path == session_pending[session_idx] IN
       IF file_path \notin review_dir
       THEN /\ session_pc' = "crashed"
            /\ UNCHANGED <<queueVars, review_dir, destination_dir, session_idx>>
       ELSE /\ review_dir' = review_dir \ {file_path}
            /\ destination_dir' = destination_dir \cup {file_path}
            /\ IF sidecar_path_set
               THEN /\ session_pc' = "crashed"
                    /\ UNCHANGED <<queueVars, session_idx>>
               ELSE /\ QueueUpdate(mark_resolved(queue_state, file_path, type_name),
                                   file_path)
                    /\ session_idx' = session_idx + 1
                    /\ session_pc' = "loop"
    /\ UNCHANGED <<reviewVars, otherVars, staging_dir, sidecar_dir, vault_dir, session_pending,
                   sidecar_path_set, skipped>>

\* the settings and the review directory a session may find
InitSession ==
    /\ ReviewTabInit
    /\ OtherIdle
    /\ state_file = << >>
    /\ queue_state = state_file
    /\ review_dir \in SUBSET Names
    /\ staging_dir = {}
    /\ sidecar_dir = {}
    /\ vault_dir = {}
    /\ session_pc = "idle"
    /\ session_pending = <<>>
    /\ session_idx = 0
    /\ sidecar_path_set \in BOOLEAN
    /\ destination_dir = {}
    /\ skipped = {}

NextSession ==
    \/ \E n \in Files : FileArrives(n)
    \/ \E order \in UNION {Orders(S) : S \in SUBSET Files} : run_review_session_scan(order)
    \/ run_review_session_return
    \/ run_review_session_open
    \/ run_review_session_skip
    \/ run_review_session_new_cancelled
    \/ \E t \in Types : run_review_session_file(t)

SpecSession == InitSession /\ [][NextSession]_vars

----------------------------------------------------------------------------
(* The intake pipeline and the staging of reviewed files, one call at a    *)
(* time: files arrive, process_file runs on a path of the intake area,     *)
(* stage_file on a file of the review area.                                *)

GuiIdle == ReviewTabInit /\ StoreInit /\ SessionOff

InitIntake == GuiIdle /\ OtherIdle

\* what select_best_candidate returns: no candidate, or a type with its score
Classifications ==
    {[best_type |-> None, score |-> <<>>]}
        \cup {[best_type |-> t, score |-> <<s>>] : t \in Types, s \in Scores}

\* what happens after routing: fields missing, or all found and a staging
\* that runs to the end or raises on the way
Extractions ==
    {[missing |-> <<"date">>, learned |-> l, staging_stem |-> "s1", raise_at |-> "none"] :
        l \in {{}, {"globex"}}}
    \cup {[missing |-> <<>>, learned |-> l, staging_stem |-> s, raise_at |-> r] :
        l \in {{}, {"globex"}}, s \in StagingStems, r \in RaisePoints \ {"classify"}}
    \cup {[missing |-> <<>>, learned |-> {}, staging_stem |-> "s1", raise_at |-> "classify"]}

process_file_call ==
    \E name \in DOMAIN intake_dir \cup {N_a}, c \in Classifications, threshold \in Thresholds, e \in Extractions :
        process_file(name, c.best_type, c.score, threshold, e.missing, e.learned,
                     e.staging_stem, e.raise_at)

stage_file_call ==
    \E name \in DOMAIN review_files, type_name \in Types, learned \in {{}, {"globex"}},
       staging_stem \in StagingStems, raise_at \in RaisePoints \ {"classify"} :
        stage_file(name, type_name, learned, staging_stem, raise_at)

NextIntake ==
    \/ \E f \in ArrivingFiles : Arrive(f[1], f[2]) /\ UNCHANGED exceptIntake
    \/ Tick /\ UNCHANGED exceptIntake
    \/ process_file_call /\ UNCHANGED exceptIntake
    \/ stage_file_call /\ UNCHANGED exceptIntake

SpecIntake == InitIntake /\ [][NextIntake]_vars

\* route_file called on its own, with every combination of its arguments
RouterThresholds == {55, 70}

route_file_call ==
    \E name \in DOMAIN intake_dir, best_type \in Types \cup {None},
       score \in {<<>>} \cup {<<s>> : s \in Scores}, threshold \in RouterThresholds :
        route_file(name, best_type, score, threshold)

NextRouter ==
    \/ \E f \in ArrivingFiles : Arrive(f[1], f[2]) /\ UNCHANGED exceptIntake
    \/ route_file_call /\ UNCHANGED exceptIntake

SpecRouter == InitIntake /\ [][NextRouter]_vars

----------------------------------------------------------------------------
(* The watcher: creation events delivered to IntakeHandler.on_created *)

InitDedup == GuiIdle /\ OtherIdle

NextDedup ==
    \/ \E raw \in RawPaths : on_created_directory(raw) /\ UNCHANGED exceptDedup
    \/ \E h \in 1..MaxHandlers, raw \in RawPaths :
            on_created(h, raw) /\ UNCHANGED exceptDedup
    \/ \E h \in 1..MaxHandlers : on_created_gone(h) /\ UNCHANGED exceptDedup
    \/ \E h \in 1..MaxHandlers : on_created_process(h) /\ UNCHANGED exceptDedup
    \/ \E h \in 1..MaxHandlers, moved \in BOOLEAN :
            on_created_return(h, moved) /\ UNCHANGED exceptDedup
    \/ Advance /\ UNCHANGED exceptDedup

SpecDedup == InitDedup /\ [][NextDedup]_vars

----------------------------------------------------------------------------
(* Concurrent updates of the configuration store *)

InitConfig == GuiIdle /\ OtherIdle

NextConfig ==
    \/ reload /\ UNCHANGED exceptConfig
    \/ resolve_fields_load /\ UNCHANGED exceptConfig
    \/ add_entity_reference_load /\ UNCHANGED exceptConfig
    \/ \E t \in Updaters : mutate(t) /\ UNCHANGED exceptConfig
    \/ \E t \in Updaters : save_reference(t) /\ UNCHANGED exceptConfig
    \/ \E t \in Updaters : read_text(t) /\ UNCHANGED exceptConfig
    \/ \E t \in Updaters : write_text(t) /\ UNCHANGED exceptConfig

SpecConfig == InitConfig /\ [][NextConfig]_vars

\* one _read_modify_write of type_definitions.json, readers and the watcher
NextCache ==
    \/ read_text("_read_modify_write") /\ UNCHANGED exceptConfig
    \/ write_text("_read_modify_write") /\ UNCHANGED exceptConfig
    \/ \E r \in 1..MaxReaders : _load_test(r) /\ UNCHANGED exceptCache
    \/ \E r \in 1..MaxReaders : _load_read_text(r) /\ UNCHANGED exceptCache
    \/ \E r \in 1..MaxReaders : _load_store(r) /\ UNCHANGED exceptCache
    \/ watcher_reload /\ UNCHANGED exceptCache

SpecCache == InitConfig /\ [][NextCache]_vars

----------------------------------------------------------------------------
(* Learning *)

\* the learning operations, one call at a time (each holds _config_lock)
NextLearn ==
    \/ \E t \in TypeNames, kws \in KeywordLists :
          add_keywords_to_type(t, kws) /\ UNCHANGED exceptLearn
    \/ \E t \in TypeNames, ps \in PatternLists :
          add_patterns_to_type(t, ps) /\ UNCHANGED exceptLearn
    \/ \E t \in TypeNames, f \in FieldNames, ps \in PatternLists :
          add_extraction_patterns(t, f, ps) /\ UNCHANGED exceptLearn
    \/ \E t \in TypeNames, f \in FieldNames :
          add_extraction_field(t, f, [patterns |-> <<>>]) /\ UNCHANGED exceptLearn
    \/ \E n \in LearnedNames :
          add_entity_reference(n, "vendor", "100") /\ UNCHANGED exceptLearn

SpecLearn == InitConfig /\ [][NextLearn]_vars

----------------------------------------------------------------------------
(* Entities *)

NextResolve ==
    \/ \E l \in Lookups :
          resolve_fields(l[1], l[2], l[3]) /\ UNCHANGED exceptResolve
    \/ \E l \in Lookups :
          _auto_add_manual_references(l[1], l[2], l[3]) /\ UNCHANGED exceptResolve
    \/ \E n \in ExtractedNames :
          add_entity_reference_call(n, "customer", "100") /\ UNCHANGED exceptResolve
    \/ \E n \in ExtractedNames, address \in Addresses, create_if_missing \in BOOLEAN :
          cross_reference_fields(n, address, create_if_missing) /\ UNCHANGED exceptResolve

SpecResolve == InitConfig /\ [][NextResolve]_vars

----------------------------------------------------------------------------
(* Scoring, matching and extraction *)

\* one scoring of a classification result
NextScorer ==
    \E candidates \in CandidateSets, weights \in WeightTables, min_signals \in MinSignals :
       /\ scorer_call = NoScoring
       /\ score_call(candidates, weights, min_signals)
       /\ UNCHANGED exceptScorer

SpecScorer == InitConfig /\ [][NextScorer]_vars

\* one call of a matching function
NextFuzzy ==
    \/ \E x \in QueryStrings, t \in Thresholds100 :
          /\ fuzzy_call = NoMatching
          /\ fuzzy_match_call(x, Single(x), t)
          /\ UNCHANGED exceptFuzzy
    \/ \E q \in QueryStrings, e \in References, t \in Thresholds100 :
          /\ fuzzy_call = NoMatching
          /\ fuzzy_match_call(q, e, t)
          /\ UNCHANGED exceptFuzzy
    \/ \E q \in QueryStrings, e \in References, t \in Thresholds100, v \in SupportingValues :
          /\ fuzzy_call = NoMatching
          /\ fuzzy_match_with_support_call(
                 q, e, t, IF v = <<>> THEN <<>> ELSE <<[field |-> "address", value |-> v]>>)
          /\ UNCHANGED exceptFuzzy

SpecFuzzy == InitConfig /\ [][NextFuzzy]_vars

\* one extraction
NextExtract ==
    \E text \in Texts, patterns \in ExtractionPatternLists, required \in BOOLEAN :
       /\ extract_call = NoExtraction
       /\ extract_fields(text, patterns, required)
       /\ UNCHANGED exceptExtract

SpecExtract == InitConfig /\ [][NextExtract]_vars

----------------------------------------------------------------------------
(* Staging names *)

\* one naming of a document
NextNamer ==
    \E type_config \in TypeConfigs, extracted_fields \in ExtractedFields, mtime \in ModifiedDates :
       /\ namer_call = NoNaming
       /\ generate_staging_name_call(type_config, extracted_fields, mtime)
       /\ UNCHANGED exceptNamer

SpecNamer == InitConfig /\ [][NextNamer]_vars

----------------------------------------------------------------------------
(* Type creation *)

NextCreator ==
    \/ \E name_var \in NameInputs, form \in Forms :
          _save(name_var, form) /\ UNCHANGED exceptCreator
    \/ \E name \in NameInputs, form \in Forms, confirm \in BOOLEAN :
          create_new_type(name, form, confirm) /\ UNCHANGED exceptCreator
    \/ \E loader \in Loaders : type_definitions_load(loader) /\ UNCHANGED exceptCreator
    \/ worker_load_read /\ UNCHANGED exceptCreator
    \/ worker_load_store /\ UNCHANGED exceptCreator

SpecCreator == InitConfig /\ [][NextCreator]_vars

----------------------------------------------------------------------------
(* Manual entries *)

NextManual ==
    \/ \E value \in ExtractedNames, lookup \in ReferenceLookups, returns \in BOOLEAN :
          stage_file_manual(value, lookup, "200", returns) /\ UNCHANGED exceptManual
    \/ \E value \in ExtractedNames :
          resolve_fields(value, "customer", "100") /\ UNCHANGED <<exceptManual, manual_call>>

SpecManual == InitConfig /\ [][NextManual]_vars

----------------------------------------------------------------------------
(* Learning loop *)

NextLoop ==
    \/ \E phase \in {"A", "B"} : _on_diagnosis_done(phase) /\ UNCHANGED exceptLoop
    \/ apply_learning_read /\ UNCHANGED exceptLoop
    \/ apply_learning_write /\ UNCHANGED exceptLoop
    \/ extraction_load_hit /\ UNCHANGED exceptLoop
    \/ extraction_load_miss /\ UNCHANGED exceptLoop
    \/ extraction_load_read_text /\ UNCHANGED exceptLoop
    \/ extraction_load_store /\ UNCHANGED exceptLoop
    \/ watcher_load /\ UNCHANGED exceptLoop
    \/ watcher_reload /\ UNCHANGED <<exceptLoop, loop>>

SpecLoop == InitConfig /\ [][NextLoop]_vars

----------------------------------------------------------------------------
(* Learning record *)

NextRecord ==
    \E kws \in ApprovedKeywords, ps \in ApprovedPatterns :
        apply_learning_a_record("invoice", kws, ps) /\ UNCHANGED exceptRecord

SpecRecord == InitConfig /\ [][NextRecord]_vars

----------------------------------------------------------------------------
(* Properties *)

AllowedOrder ==
    {<<IDLE, CLASSIFYING>>, <<CLASSIFYING, PHASE_A>>, <<PHASE_A, DIAGNOSING_A>>,
     <<DIAGNOSING_A, LEARNING_A>>, <<LEARNING_A, EXTRACTING>>,
     <<EXTRACTING, STAGING>>, <<EXTRACTING, PHASE_B>>, <<PHASE_B, DIAGNOSING_B>>,
     <<DIAGNOSING_B, LEARNING_B>>, <<LEARNING_B, RE_EXTRACTING>>,
     <<RE_EXTRACTING, STAGING>>, <<RE_EXTRACTING, MANUAL_ENTRY>>,
     <<MANUAL_ENTRY, STAGING>>, <<STAGING, DONE>>, <<DONE, IDLE>>,
     <<DONE, CLASSIFYING>>}

\* C1: while no automatic step raises (SpecNoRaise), every change of the
\* workflow state is a step of the allowed order IDLE -> CLASSIFYING -> PHASE_A
\* -> DIAGNOSING_A -> LEARNING_A -> EXTRACTING -> (PHASE_B -> DIAGNOSING_B ->
\* LEARNING_B -> RE_EXTRACTING) -> (MANUAL_ENTRY) -> STAGING -> DONE, and DONE
\* is left only to IDLE or CLASSIFYING.
C1_AllowedOrder == [][state' # state => <<state, state'>> \in AllowedOrder]_vars

\* C2: a selection event for a file other than the current one, while the
\* state is neither IDLE nor DONE, leaves the current file, the state, the
\* data collected for the review and the queue (in memory and persisted)
\* unchanged.
C2_RejectedSelection ==
    [][\A f \in Files :
          (state \notin {IDLE, DONE} /\ f # current_file /\ _on_file_select(f))
          => UNCHANGED <<current_file, state, classification, assigned_type,
                         extraction_result, gap_analysis, queue_state, state_file>>]_vars

\* a review is under way and the tree offers another file to select
C2_Witness ==
    /\ state \notin {IDLE, DONE}
    /\ \E f \in tree : f # current_file
    /\ \E f \in tree : f = current_file

\* C3: at any moment at most one background thread of the review workflow
\* runs for a given file.
C3_OneThreadPerFile ==
    \A w1 \in ThreadsRunning :
        /\ CopiesIn(w1, workers) = 1
        /\ \A w2 \in ThreadsRunning : w2.file = w1.file => w2 = w1

\* the required fields a phase-B reason names
FieldsListed(reason) == Range(reason) \cap Range(RequiredFields)

\* C4: when the extraction thread completes in state EXTRACTING, either no
\* required field is missing, the state becomes STAGING and the queue is left
\* alone (no phase B), or the state becomes PHASE_B and the entry of the file
\* under review, in memory and persisted, has phase B and a reason that lists
\* exactly the missing fields.
C4_FirstExtraction ==
    [][\A w \in ThreadsRunning, m \in SubSeqs(RequiredFields) :
          (state = EXTRACTING /\ _on_extraction_done(w, m))
          => IF m = <<>>
             THEN state' = STAGING /\ UNCHANGED <<queue_state, state_file>>
             ELSE /\ state' = PHASE_B
                  /\ current_file \in DOMAIN queue_state'
                  /\ queue_state'[current_file].phase = "B"
                  /\ FieldsListed(queue_state'[current_file].phase_b_reason) = Range(m)
                  /\ Head(queue_state'[current_file].phase_b_reason) = "missing:"
                  /\ state_file' = queue_state']_vars

\* the first extraction left "date" missing and the entry says so
C4_Witness ==
    /\ state = PHASE_B
    /\ extraction_result.missing_fields = <<"date">>
    /\ current_file \in DOMAIN state_file
    /\ state_file[current_file].phase = "B"
    /\ state_file[current_file].phase_b_reason = <<"missing:", "date">>

\* C5: within one review of a file (between two accepted selections), as long
\* as no automatic step raises, extraction is attempted at most twice, a
\* completed RE_EXTRACTING leads to STAGING or MANUAL_ENTRY only, and
\* MANUAL_ENTRY is left to STAGING only.
C5_AtMostTwoAttempts ==
    [][selections' = selections =>
          /\ attempts' <= 2
          /\ (state = RE_EXTRACTING /\ state' # state) => state' \in {STAGING, MANUAL_ENTRY}
          /\ (state = MANUAL_ENTRY /\ state' # state) => state' = STAGING]_vars

\* C6: an entry has status resolved only if the file's staged copy and its
\* sidecar were written.
C6_ResolvedOnlyIfStaged ==
    \A n \in DOMAIN state_file :
        state_file[n].status = "resolved" => n \in staging_dir /\ n \in sidecar_dir

\* C7: when "Stage File" takes the workflow from MANUAL_ENTRY to STAGING, the
\* staging thread it starts has a value for every required field.
C7_ManualValuesSupplied ==
    [][\A e \in ManualEntries :
          (state = MANUAL_ENTRY /\ _stage_with_manual(e))
          => \A w \in BagToSet(workers') :
                (w.kind = "stage" /\ CopiesIn(w, workers') > CopiesIn(w, workers))
                => Range(RequiredFields) \subseteq merged_fields(w)]_vars

\* C8: after scan, the entries are those there were and one for each regular
\* file present; every regular file present has a pending entry -- a new one
\* if it had none, its old one with status pending and resolved_as cleared if
\* that was resolved or in_review, its old one otherwise; entries of files not
\* present are unchanged; and the result is persisted.
C8_ScanPostcondition ==
    [][(\E order \in UNION {Orders(S) : S \in SUBSET Files} : run_review_session_scan(order))
       => /\ DOMAIN queue_state' = DOMAIN state_file \cup {n \in review_dir : n \in Files}
          /\ \A n \in review_dir \cap Files :
                /\ queue_state'[n].status = "pending"
                /\ n \notin DOMAIN state_file => queue_state'[n] = NewEntry
                /\ n \in DOMAIN state_file =>
                      queue_state'[n] =
                          IF state_file[n].status \in {"resolved", "in_review"}
                          THEN [state_file[n] EXCEPT !.status = "pending",
                                                     !.resolved_as = None]
                          ELSE state_file[n]
          /\ \A n \in DOMAIN state_file \ review_dir : queue_state'[n] = state_file[n]
          /\ state_file' = queue_state']_vars

\* a scan has just found a file that was filed earlier and routed to review
\* again (reset to pending), another whose review was interrupted (reset),
\* and a directory
C8_Witness ==
    /\ session_pc = "loop"
    /\ session_idx = 1
    /\ "sub" \in review_dir
    /\ Len(session_pending) = 2
    /\ \E n \in review_dir \cap destination_dir :
          n \in DOMAIN queue_state /\ queue_state[n].status = "pending"

\* C9 (as stated): once a skip has completed, the file's entry is pending.
C9_SkipReturnsToPending ==
    \A n \in skipped : n \in DOMAIN state_file /\ state_file[n].status = "pending"

\* C9 (amended): once a skip has completed, and until the next scan, the
\* file's entry, in memory and persisted, has status in_review.
C9_SkipLeavesInReview ==
    \A n \in skipped :
        /\ n \in DOMAIN state_file /\ state_file[n].status = "in_review"
        /\ n \in DOMAIN queue_state /\ queue_state[n].status = "in_review"

\* a file has been skipped and the session has moved on
C9_Witness == skipped # {} /\ session_pc = "prompt"

\* C10: a step in which a thread raises leaves the workflow state and the
\* queue, in memory and persisted, as they were; no entry becomes resolved.
C10_RaiseLeavesQueue ==
    [][\A w \in ThreadsRunning, at \in {"hash", "sidecar"}, shown \in BOOLEAN :
          task_raises(w, at, shown)
          => /\ UNCHANGED <<state, queue_state, state_file>>
             /\ \A n \in DOMAIN state_file' :
                   state_file'[n].status = "resolved" => state_file[n].status = "resolved"]_vars

\* staging failed after the move: the error panel is up, the state is still
\* STAGING and the entry still in_review
C10_Witness ==
    /\ panel = "error"
    /\ state = STAGING
    /\ workers = EmptyBag
    /\ current_file \in staging_dir \ sidecar_dir
    /\ current_file \in DOMAIN state_file
    /\ state_file[current_file].status = "in_review"

\* the documents and the sidecars of the staging directory, by stem
StagedDocuments == {p \in DOMAIN staging_files : staging_files[p].kind = "document"}
Sidecars == {p \in DOMAIN staging_files : staging_files[p].kind = "sidecar"}

\* C11: once stage_file or the auto-file branch of process_file has
\* finished, by returning or by raising, a staged document exists exactly
\* when the sidecar of its stem exists.
C11_StagedIffSidecar ==
    last_call.op \in {"process_file", "stage_file"} =>
        /\ \A d \in StagedDocuments : \E c \in Sidecars : c.stem = d.stem
        /\ \A c \in Sidecars : \E d \in StagedDocuments : d.stem = c.stem

\* C12: staged documents and sidecars are written once: no step replaces or
\* removes what a path of the staging directory holds, and no two stagings
\* that returned share a staged path or a sidecar path.
C12_StagingWriteOnce ==
    [][/\ \A p \in DOMAIN staging_files :
            p \in DOMAIN staging_files' /\ staging_files'[p] = staging_files[p]
       /\ \A r1, r2 \in ledger' :
            r1 # r2 => r1.staged # r2.staged /\ r1.sidecar # r2.sidecar]_vars

\* C13: archive_to_vault never replaces a file of the vault: every vault
\* file keeps its bytes in every step, also when the same original name and
\* type code are archived several times within one clock second.
C13_VaultNeverOverwritten ==
    [][\A v \in DOMAIN vault_files :
            v \in DOMAIN vault_files' /\ vault_files'[v] = vault_files[v]]_vars

\* C14: every staging that returns has written exactly one sidecar, whose
\* source_hash is the hash of the original bytes, and both the vault copy
\* and the staged copy that sidecar names hold bytes with that hash.
C14_SidecarMatchesCopies ==
    [][\A r \in ledger' \ ledger :
        /\ Cardinality({p \in DOMAIN staging_files' :
                /\ staging_files'[p].kind = "sidecar"
                /\ p \in DOMAIN staging_files => staging_files'[p] # staging_files[p]}) = 1
        /\ r.sidecar \in DOMAIN staging_files'
        /\ staging_files'[r.sidecar].kind = "sidecar"
        /\ staging_files'[r.sidecar].source_hash = hash_file(r.content)
        /\ staging_files'[r.sidecar].vault_file \in DOMAIN vault_files'
        /\ hash_file(vault_files'[staging_files'[r.sidecar].vault_file]) = hash_file(r.content)
        /\ r.staged \in DOMAIN staging_files'
        /\ staging_files'[r.staged].kind = "document"
        /\ r.staged.stem = staging_files'[r.sidecar].staging_filename
        /\ hash_file(staging_files'[r.staged].content) = hash_file(r.content)]_vars

\* C15: route_file returns auto_file exactly when a best type exists, it
\* has a score and the score is at least the threshold; otherwise it
\* returns review with the reason no_candidate or
\* score_<s>_below_threshold_<t>.  The file is moved to the review area
\* exactly in the review cases and stays in place for auto_file.
C15_RouteFile ==
    [][(last_call'.seq # last_call.seq /\ last_call'.op = "route_file") =>
        LET a == last_call'.args
            n == last_call'.file
            candidate == a.best_type # None /\ a.score # <<>>
        IN /\ last_call'.decision \in {"auto_file", "review"}
           /\ last_call'.decision = "auto_file" <=> (candidate /\ a.score[1] >= a.threshold)
           /\ last_call'.decision = "review" =>
                /\ last_call'.reason =
                     IF candidate
                     THEN <<"score_">> \o repr(a.score[1]) \o <<"_below_threshold_">>
                              \o repr(a.threshold)
                     ELSE <<"no_candidate">>
                /\ n \notin DOMAIN intake_dir'
                /\ \E m \in DOMAIN review_files' \ DOMAIN review_files :
                        review_files'[m] = intake_dir[n].content
           /\ last_call'.decision = "auto_file" => UNCHANGED <<intake_dir, review_files>>]_vars

\* route_file has returned auto_file for a score equal to the threshold and
\* the file is still in the intake area
C15_Witness ==
    /\ last_call.op = "route_file"
    /\ last_call.decision = "auto_file"
    /\ last_call.args.score = <<last_call.args.threshold>>
    /\ last_call.file \in DOMAIN intake_dir

\* C16: move_to_review never overwrites.  The file keeps its original name
\* if that name is free in the review area and otherwise gets the first
\* free <stem>_<n><suffix>, n = 1, 2, ...; every file of the review area
\* stays as it is, and after any sequence of moves every file that arrived
\* is present once, the moved ones under distinct names of the review area.
C16_MoveToReview ==
    [][review_files' # review_files =>
        LET n == last_call'.file
            numbered(k) == [stem |-> n.stem \o <<"_">> \o str(k), suffix |-> n.suffix]
        IN /\ \A m \in DOMAIN review_files :
                m \in DOMAIN review_files' /\ review_files'[m] = review_files[m]
           /\ \E t \in DOMAIN review_files' \ DOMAIN review_files :
                /\ DOMAIN review_files' = DOMAIN review_files \cup {t}
                /\ review_files'[t] = intake_dir[n].content
                /\ IF n \in DOMAIN review_files
                   THEN \E k \in 1..MaxArrivals :
                            /\ t = numbered(k)
                            /\ \A j \in 1..(k - 1) : numbered(j) \in DOMAIN review_files
                   ELSE t = n
           /\ \A c \in 1..arrivals' :
                Cardinality({i \in DOMAIN intake_dir' : intake_dir'[i].content = c})
                    + Cardinality({m \in DOMAIN review_files' : review_files'[m] = c}) = 1]_vars

\* a.pdf was moved to the review area while a.pdf and a_1.pdf were there
C16_Witness ==
    /\ {N_a, N_a_1, [stem |-> <<"a", "_", "2">>, suffix |-> ".pdf"]} \subseteq DOMAIN review_files
    /\ last_call.op = "route_file"
    /\ last_call.file = N_a
    /\ last_call.decision = "review"
    /\ review_files[[stem |-> <<"a", "_", "2">>, suffix |-> ".pdf"]] = last_call.content

\* C17: when check_file returns a reason, process_file returns the decision
\* rejected with that same reason, logs one error and changes nothing else:
\* the file is not moved, no vault copy, staged file or sidecar is written
\* and the reference store is left as it was.
C17_RejectionChangesNothing ==
    [][(/\ last_call'.seq # last_call.seq
        /\ last_call'.op = "process_file"
        /\ check_file(intake_dir, last_call'.file) # None) =>
            /\ last_call'.outcome = "returned"
            /\ last_call'.decision = "rejected"
            /\ last_call'.reason = <<check_file(intake_dir, last_call'.file)>>
            /\ last_call'.errors = 1
            /\ UNCHANGED <<intake_dir, review_files, staging_files, vault_files,
                           ref_store, ledger>>]_vars

\* an encrypted PDF was rejected and is still in the intake area, after an
\* earlier file was staged
C17_Witness ==
    /\ last_call.op = "process_file"
    /\ last_call.decision = "rejected"
    /\ last_call.reason = <<"password_protected_pdf">>
    /\ last_call.file \in DOMAIN intake_dir
    /\ ledger # {}

\* C18: when a file passes the guards and process_file returns, the decision
\* is auto_file or review, the file is no longer in the intake area and it
\* is in exactly one place: the staging area for auto_file, the review area
\* for review (also when it was rerouted for missing fields).
C18_ExactlyOnePlace ==
    [][(/\ last_call'.seq # last_call.seq
        /\ last_call'.op = "process_file"
        /\ check_file(intake_dir, last_call'.file) = None
        /\ last_call'.outcome = "returned") =>
            LET c == intake_dir[last_call'.file].content
                in_intake == \E n \in DOMAIN intake_dir' : intake_dir'[n].content = c
                in_staging == \E p \in DOMAIN staging_files' :
                                 /\ staging_files'[p].kind = "document"
                                 /\ staging_files'[p].content = c
                in_review == \E m \in DOMAIN review_files' : review_files'[m] = c
            IN /\ last_call'.decision \in {"auto_file", "review"}
               /\ ~in_intake
               /\ last_call'.decision = "auto_file" => in_staging /\ ~in_review
               /\ last_call'.decision = "review" => in_review /\ ~in_staging]_vars

\* C19: a creation event for a normalized path that comes less than
\* _DEDUP_WINDOW seconds after the last accepted event for that path is
\* ignored, and process_file is not invoked for it: any two accepted events
\* for one path are at least _DEDUP_WINDOW seconds apart, process_file is
\* invoked for accepted events only, and the prune never drops an entry
\* that a later repeat within the window would need.
C19_RepeatIgnored ==
    /\ \A e1, e2 \in accepted_log :
            (e1.id # e2.id /\ e1.path = e2.path /\ e1.time <= e2.time)
                => e2.time - e1.time >= _DEDUP_WINDOW
    /\ \A i \in invoked : \E e \in accepted_log : e.id = i
    /\ \A e \in accepted_log :
            (\A l \in accepted_log : l.path = e.path => l.time <= e.time)
                => \/ monotonic - e.time >= _DEDUP_WINDOW
                   \/ (e.path \in DOMAIN recently_processed /\ recently_processed[e.path] = e.time)

\* a repeat for a path was ignored within the window of its accepted event,
\* for which process_file was invoked, after a prune has dropped an entry
C19_Witness ==
    /\ last_event.ignored
    /\ \E e \in accepted_log :
            /\ e.path = last_event.path
            /\ last_event.time - e.time \in 1..(_DEDUP_WINDOW - 1)
            /\ e.id \in invoked
    /\ \E e \in accepted_log : e.path \notin DOMAIN recently_processed

\* C20: every read-modify-write of a configuration or reference document
\* runs while holding _config_lock, so that no update is lost: a thread
\* between its read and its write holds the lock, and once no update is
\* under way every key a finished update added is in its document on disk.
C20_SerializedUpdates ==
    /\ \A t \in Updaters : pcs[t] \in {"loaded", "mutated"} => config_lock = t
    /\ (\A t \in Updaters : pcs[t] \notin {"loaded", "mutated"}) =>
            added \subseteq ref_disk \cup td_disk

\* C21: after a configuration mutation has returned, every later read of
\* the document through the ConfigLoader returns content that contains the
\* mutation: what a finished read returned contains every mutation that
\* had returned when the read began.
C21_ReadSeesMutation == last_read.after \subseteq last_read.content


\* the entries of a keyword list that match a keyword without regard to case
Matching(content_keywords, kw) ==
    {i \in DOMAIN content_keywords : str_lower(content_keywords[i]) = str_lower(kw)}

\* C22: calling add_keywords_to_type again with keywords it was already
\* given for the same type (in any letter case) returns an added-count of 0,
\* leaves the stored definitions unchanged, and content_keywords holds
\* exactly one entry matching each of the keywords.
C22_KeywordIdempotent ==
    [][\A t \in DOMAIN types, kws \in KeywordLists :
          (/\ add_keywords_to_type(t, kws)
           /\ \A i \in DOMAIN kws : <<t, str_lower(kws[i])>> \in taught)
          => /\ learn_call'.added = 0
             /\ types' = types
             /\ \A i \in DOMAIN kws :
                   Cardinality(Matching(types'[t].content_keywords, kws[i])) = 1]_vars

\* a keyword was given a second time, and an entry in another letter case
\* than the list's first matches it
C22_Witness ==
    /\ learn_call.op = "add_keywords_to_type"
    /\ learn_call.again
    /\ learn_call.added = 0
    /\ <<"invoice", <<"t", "a", "x">>>> \in taught
    /\ Len(types["invoice"].content_keywords) = 2

\* no two entries of a list have the same value under norm
DuplicateFree(list, norm(_)) ==
    \A i, j \in DOMAIN list : norm(list[i]) = norm(list[j]) => i = j

Identity(s) == s

\* C23: no learning operation writes a pattern that does not compile, and
\* from a duplicate-free configuration no sequence of learning operations
\* leaves two entries with the same normalized value in a keyword list, a
\* pattern list or the entity reference.
C23_ValidatedLearning ==
    /\ \A t \in DOMAIN types :
          /\ DuplicateFree(types[t].content_keywords, str_lower)
          /\ DuplicateFree(types[t].content_patterns, Identity)
          /\ \A p \in Range(types[t].content_patterns) : ~re_error(p)
          /\ \A f \in DOMAIN types[t].extraction_fields :
                /\ DuplicateFree(types[t].extraction_fields[f].patterns, Identity)
                /\ \A p \in Range(types[t].extraction_fields[f].patterns) : ~re_error(p)
    /\ \A k1, k2 \in DOMAIN fieldname_ref :
          _normalize(fieldname_ref[k1].value.name) = _normalize(fieldname_ref[k2].value.name)
          => k1 = k2


\* no role and no doc_type occurs twice in an entity of the reference
NoDuplicateMetadata(entries) ==
    \A i \in DOMAIN entries :
       /\ DuplicateFree(entries[i].value.roles, Identity)
       /\ DuplicateFree(entries[i].value.doc_types, Identity)

\* C24: on every reference the program reaches, once resolve_fields has
\* resolved an extracted name for a role and a type code, resolving the same
\* name for the same role and type code again matches the entity the first
\* resolution created or matched and leaves the reference unchanged: no
\* second entity, no role or doc_type twice.
C24_ResolutionIdempotent ==
    \A l \in Lookups :
       LET first == resolved(l[1], l[2], l[3], fieldname_ref)
           again == resolved(l[1], l[2], l[3], first.entries)
       IN /\ again.method = "fuzzy_match"
          /\ again.entity_key = first.entity_key
          /\ again.entries = first.entries
          /\ NoDuplicateMetadata(again.entries)

\* resolve_fields matched an entity that a resolution had created, and an
\* entity of the reference has been given a second doc_type
C24_Witness ==
    /\ resolve_call.op = "resolve_fields"
    /\ resolve_call.method = "fuzzy_match"
    /\ Len(fieldname_ref) >= 2
    /\ resolve_call.entity_key = <<fieldname_ref[2].key>>
    /\ Len(fieldname_ref[1].value.doc_types) = 2

\* the key of a new entry is the slug of its name if that was free, otherwise
\* the slug with the first free suffix _2, _3, ...
CollisionSuffixed(entries, item) ==
    LET base_key == _generate_entity_key(item.value.name)
        suffixed(n) == base_key \o <<"_">> \o str(n)
    IN /\ item.key \notin Keys(entries)
       /\ \/ item.key = base_key
          \/ \E n \in 2..(MaxEntities + 1) :
                /\ item.key = suffixed(n)
                /\ base_key \in Keys(entries)
                /\ \A m \in 2..(n - 1) : suffixed(m) \in Keys(entries)

\* a creation that appends one entry under a new key and keeps the others
Appended(entries, after) ==
    /\ Len(after) = Len(entries) + 1
    /\ \A i \in DOMAIN entries : after[i] = entries[i]
    /\ CollisionSuffixed(entries, after[Len(after)])

\* C25: on every creation path (resolve_fields, the registration of manual
\* entries, add_entity_reference at review time, cross_reference_fields with
\* create_if_missing) the creation of an entity gives it a key that no
\* existing entry has (the slug, else slug_2, slug_3, ...) and leaves all
\* existing entries unchanged.
C25_CreationKeepsEntries ==
    [][resolve_call'.method = "auto_created"
       => /\ fieldname_ref' # fieldname_ref => Appended(fieldname_ref, fieldname_ref')
          /\ ref_data' # ref_data => Appended(ref_data, ref_data')]_vars


\* the sum of the values of a function with a finite domain
RECURSIVE SumValues(_)
SumValues(f) ==
    IF DOMAIN f = {} THEN 0
    ELSE LET x == CHOOSE x \in DOMAIN f : TRUE
         IN f[x] + SumValues([y \in DOMAIN f \ {x} |-> f[y]])

\* the configured weight of a signal kind, 0 for a kind without one
Configured(signal) ==
    IF signal \in DOMAIN scorer_call.weights THEN scorer_call.weights[signal] ELSE 0

\* the sum of the configured weights of the matched signal kinds of a candidate
ConfiguredSum(i) ==
    SumValues([signal \in Range(scorer_call.candidates[i].value.matched_signals) |->
                  Configured(signal)])

\* C26 as stated: every candidate's score equals the sum of the configured
\* weights of its matched signal kinds (0 for a kind without a weight), and
\* its breakdown sums to that score.
C26_ScoreIsSum ==
    \A i \in DOMAIN scorer_call.scored :
       /\ scorer_call.scored[i].value.score = ConfiguredSum(i)
       /\ SumValues(scorer_call.scored[i].value.signal_breakdown)
              = scorer_call.scored[i].value.score

\* C26 amended: every candidate's score is the sum of the configured weights
\* of its matched signal kinds rounded to four decimals; the breakdown gives
\* each matched kind its configured weight (0 without one) and sums to the
\* unrounded sum, which differs from the score by less than 0.0001.
C26_ScoreIsRoundedSum ==
    \A i \in DOMAIN scorer_call.scored :
       LET data == scorer_call.scored[i].value
       IN /\ scorer_call.scored[i].key = scorer_call.candidates[i].key
          /\ data.score % 10 = 0
          /\ data.score - ConfiguredSum(i) \in -5..5
          /\ DOMAIN data.signal_breakdown = Range(data.matched_signals)
          /\ \A signal \in DOMAIN data.signal_breakdown :
                data.signal_breakdown[signal] = Configured(signal)
          /\ SumValues(data.signal_breakdown) = ConfiguredSum(i)

\* a candidate was scored whose score is not the sum of its breakdown, and
\* one with a matched kind that has no configured weight
C26_Witness ==
    /\ scorer_call.scoring
    /\ \E i \in DOMAIN scorer_call.scored :
          scorer_call.scored[i].value.score
              # SumValues(scorer_call.scored[i].value.signal_breakdown)
    /\ \E i \in DOMAIN scorer_call.scored :
          \E signal \in Range(scorer_call.scored[i].value.matched_signals) :
             signal \notin DOMAIN scorer_call.weights

\* the candidates with at least min_signals matched signals
Qualifying ==
    {i \in DOMAIN scorer_call.scored :
        Len(scorer_call.scored[i].value.matched_signals) >= scorer_call.min_signals}

\* the first of the qualifying candidates of maximal score
FirstMaximal ==
    CHOOSE i \in Qualifying :
       \A j \in Qualifying :
          \/ scorer_call.scored[i].value.score > scorer_call.scored[j].value.score
          \/ /\ scorer_call.scored[i].value.score = scorer_call.scored[j].value.score
             /\ i <= j

\* C27: select_best_candidate returns the first-encountered candidate of
\* maximal score among those with at least min_signals matched signals, and
\* (None, None) when none qualifies; a candidate with fewer signals is never
\* returned, and of equal maximal scores the earlier candidate wins.
C27_FirstMaximalQualifying ==
    IF Qualifying = {}
    THEN scorer_call.best = NoBest
    ELSE /\ scorer_call.best.name = scorer_call.scored[FirstMaximal].key
         /\ scorer_call.best.data = <<scorer_call.scored[FirstMaximal].value>>

\* two qualifying candidates share the maximal score, a candidate with fewer
\* signals has a greater score, and the earlier of the two was returned
C27_Witness ==
    /\ scorer_call.scoring
    /\ \E i, j \in Qualifying :
          /\ i < j
          /\ scorer_call.scored[i].value.score = scorer_call.scored[j].value.score
          /\ scorer_call.best.name = scorer_call.scored[i].key
    /\ \E k \in DOMAIN scorer_call.scored \ Qualifying :
          scorer_call.scored[k].value.score > scorer_call.best.data[1].score


\* a call matched x against a reference holding one entity k named x
ReflexiveCall ==
    /\ fuzzy_call.op = "fuzzy_match"
    /\ fuzzy_call.entries = Single(fuzzy_call.query)
    /\ fuzzy_call.threshold <= 100

\* what is accepted at a threshold is accepted with the same key at every
\* lower threshold
ThresholdMonotonic ==
    (fuzzy_call.op = "fuzzy_match" /\ fuzzy_call.result.key # <<>>)
    => \A t1 \in Thresholds100 :
          t1 <= fuzzy_call.threshold
          => fuzzy_match(fuzzy_call.query, fuzzy_call.entries, t1).key = fuzzy_call.result.key

\* C28 as stated: for any string x and any threshold t <= 1.0, fuzzy_match
\* of x against a reference holding one entity k named x returns (k, 1.0);
\* and a match accepted at a threshold is accepted with the same key at every
\* lower threshold.
C28_ReflexiveMonotonic ==
    /\ ReflexiveCall => fuzzy_call.result = [key |-> <<<<"k">>>>, ratio |-> One]
    /\ ThresholdMonotonic

\* C28 amended: for any string x that is not empty after lower() and strip()
\* and any threshold t <= 1.0, fuzzy_match of x against a reference holding
\* one entity k named x returns (k, 1.0), and for an x that is empty after
\* normalization it returns (None, 0.0); a match accepted at a threshold is
\* accepted with the same key at every lower threshold.
C28_ReflexiveNonEmptyMonotonic ==
    /\ ReflexiveCall
       => fuzzy_call.result =
             IF _normalize(fuzzy_call.query) # <<>> THEN [key |-> <<<<"k">>>>, ratio |-> One]
             ELSE [key |-> <<>>, ratio |-> Zero]
    /\ ThresholdMonotonic

\* a name with a capital and a blank was matched against itself at the
\* threshold 1.0
C28_Witness ==
    /\ ReflexiveCall
    /\ fuzzy_call.query = <<" ", "A", "c">>
    /\ fuzzy_call.threshold = 100
    /\ fuzzy_call.result.key = <<<<"k">>>>

\* the query equals, normalized, a name or an alias of the reference
ExactCall ==
    /\ _normalize(fuzzy_call.query) # <<>>
    /\ \E i \in DOMAIN Candidates(fuzzy_call.entries) :
          _normalize(Candidates(fuzzy_call.entries)[i].candidate) = _normalize(fuzzy_call.query)

\* the best candidate of a call that is not exact
BestOfCall ==
    best_match(_normalize(fuzzy_call.query), Candidates(fuzzy_call.entries), NoMatch)

\* a call with support that is not exact and whose best ratio reaches the
\* threshold
FuzzyCallWithSupport ==
    /\ fuzzy_call.op = "fuzzy_match_with_support"
    /\ _normalize(fuzzy_call.query) # <<>>
    /\ ~ExactCall
    /\ BestOfCall.key # <<>>
    /\ AtLeast(BestOfCall.ratio, fuzzy_call.threshold)

\* a supplied supporting value equals, normalized, the attribute of the same
\* name of the best entry
Confirmed ==
    \E j \in DOMAIN fuzzy_call.supporting_values :
       LET extracted_val == fuzzy_call.supporting_values[j].value
           ref_val == GetItem(fuzzy_call.entries, BestOfCall.key[1])
                          [fuzzy_call.supporting_values[j].field]
       IN /\ extracted_val # <<>>
          /\ ref_val # <<>>
          /\ _normalize(extracted_val) = _normalize(ref_val)

\* C29: in fuzzy_match_with_support a match that is not exact and whose best
\* ratio is at or above the threshold is accepted if no supporting value was
\* supplied or one of them equals, normalized, the matched entity's attribute
\* of the same name, and rejected if supporting values were supplied and none
\* does; an exact normalized match on a name or alias is accepted with ratio
\* 1.0 whatever the supporting values.
C29_SupportDecides ==
    fuzzy_call.op = "fuzzy_match_with_support"
    => /\ ExactCall => (fuzzy_call.result.key # <<>> /\ fuzzy_call.result.ratio = One)
       /\ FuzzyCallWithSupport
          => IF fuzzy_call.supporting_values = <<>> \/ Confirmed
             THEN fuzzy_call.result = [key |-> BestOfCall.key, ratio |-> BestOfCall.ratio]
             ELSE fuzzy_call.result = [key |-> <<>>, ratio |-> BestOfCall.ratio]

\* a match that is not exact was rejected because the supplied address is not
\* the best entry's
C29_Witness ==
    /\ FuzzyCallWithSupport
    /\ fuzzy_call.supporting_values # <<>>
    /\ ~Confirmed
    /\ fuzzy_call.result.key = <<>>

\* a pattern yields a value: it has a group, it matches, and its group 1 is
\* not empty after trimming
Yields(pattern) ==
    /\ pattern.kind = "group"
    /\ re_search(pattern, extract_call.text).found
    /\ strip(re_search(pattern, extract_call.text).group) # <<>>

\* C30: extract_fields takes the value of the first pattern, in order, whose
\* group 1 is non-empty after trimming (a pattern that matches with an empty
\* group 1 does not stop the search), and reports a required field missing
\* only when no pattern yields a non-empty value.
C30_FirstNonEmptyGroup ==
    extract_call.called
    => LET yielding == {i \in DOMAIN extract_call.patterns : Yields(extract_call.patterns[i])}
           first == CHOOSE i \in yielding : \A j \in yielding : i <= j
       IN IF yielding # {}
          THEN /\ extract_call.extracted =
                     strip(re_search(extract_call.patterns[first], extract_call.text).group)
               /\ ~extract_call.missing
          ELSE /\ extract_call.extracted = <<>>
               /\ extract_call.missing = extract_call.required

\* value[:n] and value[-n:]
First(value, n) == SubSeq(value, 1, n)
Last(value, n) == SubSeq(value, Len(value) - n + 1, Len(value))

Named == namer_call.op = "generate_staging_name"

UniqueCodes ==
    \A a, b \in DOMAIN type_definitions :
       a # b => type_definitions[a].code # type_definitions[b].code

\* no type definition has the reserved code
ReservedKept == \A t \in DOMAIN type_definitions : type_definitions[t].code # _FALLBACK

\* every type definition stays as it is
DefinitionsKept ==
    \A t \in DOMAIN type_definitions :
       t \in DOMAIN type_definitions' /\ type_definitions'[t] = type_definitions[t]

\* C32: after any sequence of type creations in the Define tab and in the
\* terminal review, no two type definitions have the same code, no type has
\* the code "000", and a creation never replaces an existing definition.
C32_CodesUnique ==
    [][UniqueCodes' /\ ReservedKept' /\ DefinitionsKept]_vars

\* the entity has the value as its name or as one of its aliases, normalized
NamedAs(entity, value) ==
    \/ _normalize(entity.name) = _normalize(value)
    \/ \E i \in DOMAIN entity.aliases : _normalize(entity.aliases[i]) = _normalize(value)

\* C33: after stage_file has returned for a manually entered value of a
\* field with a reference lookup, the entity reference holds an entity whose
\* name or one of whose aliases equals the entered value after
\* normalization, and that entity carries the field's role and the type's
\* code.
C33_ManualValueRegistered ==
    (/\ manual_call.op = "stage_file"
     /\ manual_call.returned
     /\ manual_call.lookup.defined
     /\ DOMAIN manual_call.lookup.config # {})
    => \E i \in DOMAIN fieldname_ref :
          /\ NamedAs(fieldname_ref[i].value, manual_call.value)
          /\ manual_call.lookup.config.role \in Range(fieldname_ref[i].value.roles)
          /\ manual_call.type_code \in Range(fieldname_ref[i].value.doc_types)

\* C34: every item that LEARNING_A or LEARNING_B persisted is part of the
\* type definition that the extraction worker of EXTRACTING or
\* RE_EXTRACTING reads: the write and the invalidation of the cache come
\* before the worker's read.
C34_LearningSeenByExtraction ==
    loop.state = "extracted" => new_key("_read_modify_write") \in loop.read

\* the automatic state in which a thread of each kind is started
launched_in(kind) ==
    CASE kind = "classify" -> CLASSIFYING
      [] kind = "diagnose_a" -> DIAGNOSING_A
      [] kind = "extract" -> EXTRACTING
      [] kind = "diagnose_b" -> DIAGNOSING_B
      [] kind = "re_extract" -> RE_EXTRACTING
      [] kind = "stage" -> STAGING

\* C35: the completion of a worker whose review was reset while it ran (the
\* workflow is no longer in the state that started the worker) changes
\* neither the workflow state, nor the data of the current review, nor the
\* queue.
C35_LateResultIgnored ==
    [][\A w \in BagToSet(workers) :
          (CopiesIn(w, workers') < CopiesIn(w, workers) /\ state # launched_in(w.kind))
          => UNCHANGED <<state, current_file, classification, assigned_type,
                         extraction_result, gap_analysis, queue_state>>]_vars

AutomaticStates == {CLASSIFYING, DIAGNOSING_A, EXTRACTING, DIAGNOSING_B, RE_EXTRACTING, STAGING}

\* C36: under fair scheduling of the threads and of their posted callbacks
\* every automatic state is eventually left: the thread's completion
\* advances the workflow, or its failure shows the error panel whose
\* "Back to Queue" button leads to IDLE.
C36_AutomaticStateLeft ==
    \A s \in AutomaticStates : (state = s) ~> (state # s)

status_of(name) == IF name \in DOMAIN queue_state THEN queue_state[name].status ELSE None

\* C37: with the reviewer rescanning the queue, an entry that is in_review
\* becomes resolved or pending again, whether the review ended normally, was
\* left after an error or failed while staging.
C37_InReviewEnds ==
    \A name \in Files :
        (status_of(name) = "in_review") ~> (status_of(name) \in {"resolved", "pending"})

\* C38: a resolved entry keeps its status and its resolved_as value in every
\* step but a scan that finds a file of its name in the review area; in
\* particular no selection in DONE or IDLE makes it in_review.
C38_ResolvedKept ==
    [][\A name \in DOMAIN queue_state :
          queue_state[name].status = "resolved"
          => \/ /\ name \in DOMAIN queue_state'
                /\ queue_state'[name].status = "resolved"
                /\ queue_state'[name].resolved_as = queue_state[name].resolved_as
             \/ /\ name \in review_dir
                /\ queue_state' = scan(queue_state, review_dir)]_vars

\* C39: the learning record lists as keywords_added and patterns_added
\* exactly the approved items that the review appended to the type
\* definition, whatever was approved and whatever the definition held.
C39_RecordListsAppended ==
    appended.applied =>
        /\ learning_record.keywords_added = appended.keywords
        /\ learning_record.patterns_added = appended.patterns

\* C40: the first creation event observed for a path is not ignored by the
\* check against _recently_processed, whatever time.monotonic() returns;
\* stated for the first event that a handler gets at all.
C40_FirstEventAccepted ==
    [][\A h \in 1..MaxHandlers, raw \in RawPaths :
          (events = 0 /\ on_created(h, raw)) => ~last_event'.ignored]_vars

====
